---- MODULE Spec2Model ----
(***************************************************************************)
(* Alarm scheduler, event queue and event processor of the bot.            *)
(*                                                                         *)
(* Time is an integer count of abstract units; CHECK_INTERVAL units make   *)
(* one check interval (60 s in the source).  clock is the UTC instant; the *)
(* scheduler reads datetime.now(), the naive local wall clock, which is    *)
(* clock + tz on a host whose zone is tz units ahead of UTC.  Stored       *)
(* trigger times are UTC wall-clock values.                                *)
(*                                                                         *)
(* All coroutines run on one event loop: a coroutine is only preempted at  *)
(* an await that really suspends.  A scheduler tick of the queue-based     *)
(* service has none, so the other tasks act only while the scheduler is    *)
(* in asyncio.sleep; wall-clock time still passes in a tick.  The inline   *)
(* service of the hangoutsscheduler package awaits the language model in   *)
(* its pass and is modelled by SpecInline.                                 *)
(***************************************************************************)
EXTENDS Integers, Sequences, FiniteSets, TLC

\* ---- bounds of the model ----
MaxClock == 5
MaxAlarms == 2
MaxCrashes == 1
MaxTrigger == 2
MaxPassTime == 1
TzOffsets == {0, 1}
MaxMessages == 3
MaxAppends == 3
MessageIds == {"a", "b", "c"}
Timestamps == {1, 2}
Contents == {"x", "y"}
UtcOffsets == {-1, 0, 1}
MaxChars == 5
MaxTurns == 2
MaxTokenLimit == 2
MaxRecords == 3
MaxListeners == 3
Chars == {"a", "b", " ", "\t"}

\* one check interval, in model time units
CHECK_INTERVAL == 2

\* the description of an alarm is an opaque string; each alarm gets its own
DescriptionOf(id) == <<"description", id>>

\* the users that own alarms; the console's user is user_name="User"
CliUser == "User"
UserIds == {CliUser, "other"}

NoEvent == [event_source |-> "none", event_description |-> "none", alarm_id |-> 0]

VARIABLES
    clock,          \* current UTC instant
    tz,             \* offset of the host's local zone from UTC
    store,          \* committed rows of the alarm table
    nextId,         \* next autoincrement alarm_id
    schedPc,        \* position of AlarmService.start
    wakeAt,         \* instant at which the pending asyncio.sleep completes
    passTime,       \* time units elapsed since the running pass opened
    pendingDel,     \* alarm_ids marked session.delete() and not yet committed
    work,           \* alarms selected by the inline service still to process
    nowDel,         \* datetime.now() read by delete_old_alarms in this pass
    nowChk,         \* datetime.now() read by check_alarms in this pass
    event_queue,    \* AlarmService.event_queue
    procPc,         \* position of alarm_event_processor
    current,        \* event popped by the processor and being dispatched
    lastOutcome,    \* how the latest dispatch ended: "none", "returned" or "raised"
    commitsInPass,  \* history: session.commit() calls of the latest pass
    enqLog,         \* history: the alarm_id of every fire (put_nowait), in order
    dispLog,        \* history: every alarm_id handed to the orchestrator
    crashes,        \* history: number of process crashes
    immediate_history,  \* UserMessageEvent.immediate_history of the turn
    user_chat_history,  \* column user_chat_history of the user's UserContextORM row
    merged,         \* what Orchestrator.merge_chat_history returned or raised
    encoded,        \* what LlmService.encode_context_histories returned or raised
    chat_history,   \* column history of the user's ChatHistory row
    appendLog,      \* history: every message appended to the user context, in order
    chatLog,        \* history: every entry passed to _update_history, in order
    requested,      \* history: for each alarm_id, the timestamp string last stored for it
    result,         \* what the latest alarm tool call returned
    turnPc,         \* position of the input integration in its message turn
    turn,           \* the message turn under way: integration, user message, response
    session,        \* what the turn's session holds and has not committed
    snapshot,       \* history: the committed rows when the latest turn began
    reported,       \* what the latest turn showed the user
    turns,          \* history: number of message turns begun
    environ,        \* os.environ and the command line, as far as main() reads them
    mainPc,         \* position of main()
    tasks,          \* state of each asyncio task main() creates
    ready,          \* the event loop's queue of ready callbacks
    max_tokens,     \* MessageValidator.max_tokens
    raw_message,    \* the message given to validate_message
    validated,      \* what validate_message returned
    survived,       \* history: alarms a committed pass left in the store although due
    fireLog,        \* history: the trigger_time of every fire, in order
    raisedIn,       \* history: alarms whose process_alarm raised in the pass under way
    current_request_id, \* RequestIdFilter.current_request_id
    requests,       \* each message turn's position and the request id generated for it
    records,        \* history: the log records emitted, with the request id attached
    listeners,      \* MessagingTools._listeners
    delivered,      \* history: the listeners the latest notify_all called, in order
    notified        \* how the latest notify_all ended

vars == <<clock, tz, store, nextId, schedPc, wakeAt, passTime, pendingDel, work, nowDel,
          nowChk, event_queue, procPc, current, commitsInPass,
          enqLog, dispLog, crashes, lastOutcome,
          immediate_history, user_chat_history, merged, encoded, chat_history,
          appendLog, chatLog, requested, result, turnPc, turn, session, snapshot,
          reported, turns, environ, mainPc, tasks, ready, max_tokens, raw_message,
          validated, survived, fireLog, raisedIn, current_request_id, requests, records,
          listeners, delivered, notified>>

\* the scheduler, the queue and the processor
alarmVars == <<clock, tz, store, nextId, schedPc, wakeAt, passTime, pendingDel, work, nowDel,
               nowChk, event_queue, procPc, current, commitsInPass,
               enqLog, dispLog, crashes, lastOutcome>>

\* a message turn: the histories, their merge, and the tool calls' inputs
chatVars == <<immediate_history, user_chat_history, merged, encoded, chat_history,
              appendLog, chatLog, requested, result, turnPc, turn, session, snapshot,
              reported, turns, environ, mainPc, tasks, ready, max_tokens, raw_message,
              validated>>

\* the request id attached to log records
requestVars == <<current_request_id, requests, records>>

\* the message listeners
notifyVars == <<listeners, delivered, notified>>

\* the histories of the scheduler's passes, the request ids and the listeners
moreVars == <<survived, fireLog, raisedIn, requestVars, notifyVars>>

\* what the scheduler and the processor leave alone
turnVars == <<chatVars, moreVars>>

\* the input integration's loop and its message turn
loopVars == <<turnPc, turn, session, snapshot, reported, turns>>

\* process start
startVars == <<environ, mainPc, tasks, ready>>

\* the message validator
validatorVars == <<max_tokens, raw_message, validated>>

\* what the history merges, the appends and the alarm tools leave alone
sideVars == <<loopVars, startVars, validatorVars, moreVars>>

schedVars == <<schedPc, wakeAt, passTime, pendingDel, work, nowDel, nowChk, commitsInPass>>
procVars == <<procPc, current, dispLog, lastOutcome>>

\* ---- pure helpers ----

\* datetime.now(): naive local wall clock
LocalNow == clock + tz

\* no stale eviction: the query selects nothing
StaleAlarmsNever(rows, now) == {}

\* eviction threshold off by one unit
StaleAlarmsLate(rows, now) ==
    {a \in rows : a.trigger_time < now - CHECK_INTERVAL - 1}

\* select(Alarm).where(Alarm.trigger_time < now - check_interval)
StaleAlarms(rows, now) ==
    {a \in rows : a.trigger_time < now - CHECK_INTERVAL}

\* fire window that excludes the instant now
ActiveAlarmsStrict(rows, now) ==
    {a \in rows : a.trigger_time < now /\ a.trigger_time > now - CHECK_INTERVAL}

\* select(Alarm).where(Alarm.trigger_time <= now, Alarm.trigger_time > check_from)
ActiveAlarms(rows, now) ==
    {a \in rows : a.trigger_time <= now /\ a.trigger_time > now - CHECK_INTERVAL}

\* the select has no ORDER BY: the rows come back in any order
Orders(S) ==
    {f \in [1..Cardinality(S) -> S] : \A i, j \in 1..Cardinality(S) : i # j => f[i] # f[j]}

\* EventContext(event_source=..., event_description=..., additional_data={"alarm_id": ...})
EventOf(a) ==
    [event_source |-> "AlarmService",
     event_description |-> a.description,
     alarm_id |-> a.alarm_id]

\* a queue of maxsize 1: QueueFull is raised, process_alarm logs it, no event
put_nowait_bounded(q, e) == IF Len(q) < 1 THEN Append(q, e) ELSE q

\* asyncio.Queue() has maxsize 0: put_nowait always appends
put_nowait(q, e) == Append(q, e)

RECURSIVE PutAll(_, _)
PutAll(q, evs) ==
    IF evs = <<>> THEN q ELSE PutAll(put_nowait(q, Head(evs)), Tail(evs))

\* a LIFO pop: the newest item first
QueuePopLifo(q) == [item |-> q[Len(q)], rest |-> SubSeq(q, 1, Len(q) - 1)]

\* Queue.get() on a non-empty queue: the oldest item, and what stays queued
QueuePop(q) == [item |-> Head(q), rest |-> Tail(q)]

\* no sleep between two passes
SleepNone(c) == c

\* a sleep that is one unit short of the check interval
SleepShort(c) == c + CHECK_INTERVAL - 1

\* asyncio.sleep(self.check_interval) started at instant c
SleepUntil(c) == c + CHECK_INTERVAL

\* session.commit(): the pending deletes become visible
CommitStore(rows, del) == {a \in rows : a.alarm_id \notin del}

IdsOf(S) == {a.alarm_id : a \in S}

\* other coroutines run only while the scheduler is suspended
SchedSuspended == schedPc \in {"Sleeping", "AwaitLlm"}

\* ---- initial state ----
\* no merge has run
NotRun == [done |-> FALSE, raised |-> FALSE, value |-> <<>>]

\* no alarm tool has been called
NoResult == [kind |-> "none", alarms |-> <<>>]

\* no message turn is under way
NoTurn == [integration |-> "none", message |-> <<>>, response |-> <<>>]

\* no session is open
NoSession == [user_chat_history |-> <<>>, chat_history |-> <<>>, rows |-> {}, nextId |-> 1]

\* no turn has begun
NoSnapshot ==
    [user_chat_history |-> <<>>, chat_history |-> <<>>, store |-> {},
     immediate_history |-> <<>>]

\* the message turns whose log records carry a request id
Requests == {"r1", "r2"}

\* no request id has been generated for the turn
NoRequest == [pc |-> "idle", request_id |-> "None"]

\* no pass has committed, no turn is in its request block, no listener is registered
InitMore ==
    /\ survived = {}
    /\ fireLog = <<>>
    /\ raisedIn = {}
    /\ current_request_id = "None"
    /\ requests = [r \in Requests |-> NoRequest]
    /\ records = <<>>
    /\ listeners = <<>>
    /\ delivered = <<>>
    /\ notified = "none"

\* the input integration waits for its first message
InitLoop ==
    /\ turnPc = "Reading"
    /\ turn = NoTurn
    /\ session = NoSession
    /\ snapshot = NoSnapshot
    /\ reported = "none"
    /\ turns = 0

\* the tasks main() creates
TaskNames == {"alarm_service", "alarm_event_processor", "integration"}

\* main() has created its three tasks and waits in asyncio.gather
InitStarted ==
    /\ environ = [OPENAI_API_KEY |-> TRUE, discord |-> FALSE, discord_token |-> FALSE,
                  DISCORD_TOKEN |-> FALSE]
    /\ mainPc = "Gathering"
    /\ tasks = [t \in TaskNames |-> "running"]
    /\ ready = <<>>

\* MessageValidator(max_tokens=50), 50 in the source
MAX_TOKENS == 2

\* no message has been validated
NotValidated == [done |-> FALSE, value |-> <<>>]

InitValidator ==
    /\ max_tokens = MAX_TOKENS
    /\ raw_message = <<>>
    /\ validated = NotValidated

InitSide ==
    /\ result = NoResult
    /\ InitLoop
    /\ InitMore
    /\ InitStarted
    /\ InitValidator

\* no row in user_context or chat_history
InitChat ==
    /\ immediate_history = <<>>
    /\ user_chat_history = <<>>
    /\ merged = NotRun
    /\ encoded = NotRun
    /\ chat_history = <<>>
    /\ appendLog = <<>>
    /\ chatLog = <<>>
    /\ requested = <<>>

\* no row in user_context or chat_history, no message turn under way
InitTurn == InitChat /\ InitSide

InitAlarm ==
    /\ clock = 0
    /\ tz \in TzOffsets
    /\ store = {}
    /\ nextId = 1
    /\ schedPc = "Sleeping"
    /\ wakeAt = 0
    /\ passTime = 0
    /\ pendingDel = {}
    /\ work = <<>>
    /\ nowDel = 0
    /\ nowChk = 0
    /\ event_queue = <<>>
    /\ procPc = "Waiting"
    /\ current = NoEvent
    /\ commitsInPass = 0
    /\ enqLog = <<>>
    /\ dispLog = <<>>
    /\ crashes = 0
    /\ lastOutcome = "none"

Init == InitAlarm /\ InitTurn

\* ---- environment ----
\* time passes; a pass lasts at most MaxPassTime units
AdvanceClock ==
    /\ clock < MaxClock
    /\ schedPc \in {"Sleeping", "Stopped"} \/ passTime < MaxPassTime
    /\ clock' = clock + 1
    /\ passTime' = IF schedPc \in {"Sleeping", "Stopped"} THEN 0 ELSE passTime + 1
    /\ UNCHANGED turnVars
    /\ UNCHANGED <<tz, store, nextId, schedPc, wakeAt, pendingDel, work, nowDel, nowChk,
                   commitsInPass, event_queue, procVars, enqLog, crashes>>

\* a message turn whose create_alarm tool call parsed its timestamp to the
\* UTC instant tt, committed
create_alarm(tt) ==
    /\ SchedSuspended
    /\ nextId <= MaxAlarms
    /\ store' = store \cup {[alarm_id |-> nextId, trigger_time |-> tt,
                            description |-> DescriptionOf(nextId),
                            user_id |-> CliUser]}
    /\ nextId' = nextId + 1
    /\ UNCHANGED turnVars
    /\ UNCHANGED <<clock, tz, schedVars, event_queue, procVars, enqLog, crashes>>

\* ---- AlarmService.start, queue-based service ----

\* the sleep returns and the pass opens its session
start_open ==
    /\ schedPc = "Sleeping"
    /\ clock >= wakeAt
    /\ schedPc' = "Opened"
    /\ wakeAt' = 0
    /\ passTime' = 0
    /\ commitsInPass' = 0
    /\ pendingDel' = {}
    /\ raisedIn' = {}
    /\ UNCHANGED <<chatVars, survived, fireLog, requestVars, notifyVars>>
    /\ UNCHANGED <<clock, tz, store, nextId, work, nowDel, nowChk, event_queue, procVars,
                   enqLog, crashes>>

\* eviction on an autocommit session: each delete is visible at once
delete_old_alarms_autocommit ==
    /\ schedPc = "Opened"
    /\ nowDel' = LocalNow
    /\ store' = store \ StaleAlarms(store, LocalNow)
    /\ schedPc' = "Evicted"
    /\ UNCHANGED turnVars
    /\ UNCHANGED <<clock, tz, nextId, wakeAt, passTime, pendingDel, work, nowChk, event_queue,
                   procVars, commitsInPass, enqLog, crashes>>

\* delete_old_alarms: select the stale rows, session.delete() each
delete_old_alarms ==
    /\ schedPc = "Opened"
    /\ nowDel' = LocalNow
    /\ pendingDel' = pendingDel \cup IdsOf(StaleAlarms(store, LocalNow))
    /\ schedPc' = "Evicted"
    /\ UNCHANGED turnVars
    /\ UNCHANGED <<clock, tz, store, nextId, wakeAt, passTime, work, nowChk, event_queue, procVars,
                   commitsInPass, enqLog, crashes>>

\* process_alarm marks every selected alarm deleted, the one that raised too
MarkedWhenRaised(active, raised) == active

\* process_alarm: session.delete(alarm) comes after put_nowait inside the try, so
\* an alarm whose event could not be built or enqueued is not marked deleted
Marked(active, raised) == {a \in active : a.alarm_id \notin raised}

\* check_alarms when process_alarm raises for the alarms in raised: the except
\* clause of process_alarm logs the error and the for loop goes on
check_alarms_with(raised) ==
    /\ schedPc = "Evicted"
    /\ raised \subseteq IdsOf(ActiveAlarms(store, LocalNow))
    /\ \E order \in Orders({a \in ActiveAlarms(store, LocalNow) : a.alarm_id \notin raised}) :
          /\ event_queue' = PutAll(event_queue, [i \in DOMAIN order |-> EventOf(order[i])])
          /\ enqLog' = enqLog \o [i \in DOMAIN order |-> order[i].alarm_id]
          /\ fireLog' = fireLog \o [i \in DOMAIN order |-> order[i].trigger_time]
    /\ pendingDel' = pendingDel \cup IdsOf(Marked(ActiveAlarms(store, LocalNow), raised))
    /\ raisedIn' = raised
    /\ nowChk' = LocalNow
    /\ schedPc' = "Checked"
    /\ UNCHANGED <<chatVars, survived, requestVars, notifyVars>>
    /\ UNCHANGED <<clock, tz, store, nextId, wakeAt, passTime, work, nowDel, procVars,
                   commitsInPass, crashes>>

\* process_alarm for each selected alarm: enqueue its event, mark it deleted
check_alarms == check_alarms_with({})

\* check_alarms in a pass where building or enqueueing some alarm's event raises
check_alarms_raising ==
    \E raised \in SUBSET IdsOf(store) : raised # {} /\ check_alarms_with(raised)

\* the alarms a committed pass left in the store although their trigger_time
\* was not after the now the pass read
LeftDue(rows, now) == {a.alarm_id : a \in {b \in rows : b.trigger_time <= now}}

\* session.commit() succeeds, then the loop goes to sleep
commit ==
    /\ schedPc = "Checked"
    /\ store' = CommitStore(store, pendingDel)
    /\ survived' = survived \cup LeftDue(CommitStore(store, pendingDel), nowChk)
    /\ pendingDel' = {}
    /\ commitsInPass' = commitsInPass + 1
    /\ schedPc' = "Sleeping"
    /\ wakeAt' = SleepUntil(clock)
    /\ passTime' = 0
    /\ nowDel' = 0
    /\ nowChk' = 0
    /\ UNCHANGED <<chatVars, fireLog, raisedIn, requestVars, notifyVars>>
    /\ UNCHANGED <<clock, tz, nextId, work, event_queue, procVars, enqLog, crashes>>

\* the exception escapes the loop
AfterExceptionEscapes == "Stopped"

\* where an exception of the pass ends up: except Exception, then the sleep
AfterException == "Sleeping"

\* a query or the commit raises: the session closes without commit
tick_fail ==
    /\ schedPc \in {"Opened", "Evicted", "Checked"}
    /\ pendingDel' = {}
    /\ schedPc' = AfterException
    /\ wakeAt' = SleepUntil(clock)
    /\ passTime' = 0
    /\ nowDel' = 0
    /\ nowChk' = 0
    /\ UNCHANGED turnVars
    /\ UNCHANGED <<clock, tz, store, nextId, work, event_queue, procVars,
                   commitsInPass, enqLog, crashes>>

\* main's finally: task.cancel() on every task; CancelledError is raised in each
\* at the await it is suspended in (the scheduler's sleep, the processor's
\* queue wait or dispatch)
shutdown ==
    /\ schedPc = "Sleeping"
    /\ schedPc' = "Stopped"
    /\ procPc' = "Stopped"
    /\ current' = NoEvent
    /\ UNCHANGED turnVars
    /\ UNCHANGED <<clock, tz, store, nextId, wakeAt, passTime, pendingDel, work, nowDel, nowChk,
                   event_queue, dispLog, lastOutcome, commitsInPass, enqLog, crashes>>

\* ---- alarm_event_processor ----
proc_get ==
    /\ SchedSuspended
    /\ procPc = "Waiting"
    /\ event_queue # <<>>
    /\ current' = QueuePop(event_queue).item
    /\ event_queue' = QueuePop(event_queue).rest
    /\ dispLog' = Append(dispLog, QueuePop(event_queue).item.alarm_id)
    /\ procPc' = "Dispatching"
    /\ UNCHANGED turnVars
    /\ UNCHANGED <<clock, tz, store, nextId, schedVars, enqLog, crashes, lastOutcome>>

\* the exception ends the processor's loop
AfterDispatchExceptionEscapes == "Stopped"

\* where an exception of the dispatch ends up: except Exception inside the
\* while loop, then the next event_queue.get()
AfterDispatchException == "Waiting"

\* a failed dispatch puts its event back at the end of the queue
RequeueFailedDispatch(q, e) == Append(q, e)

\* what the except branch does with the event it failed on: it logs, the
\* queue is left alone
AfterFailedDispatch(q, e) == q

\* handle_system_event returns and the response is logged, or it raises and
\* the exception is logged; either way the loop waits again
proc_done ==
    /\ SchedSuspended
    /\ procPc = "Dispatching"
    /\ \E ok \in BOOLEAN :
          /\ lastOutcome' = IF ok THEN "returned" ELSE "raised"
          /\ procPc' = IF ok THEN "Waiting" ELSE AfterDispatchException
          /\ event_queue' = IF ok THEN event_queue
                                  ELSE AfterFailedDispatch(event_queue, current)
    /\ current' = NoEvent
    /\ UNCHANGED turnVars
    /\ UNCHANGED <<clock, tz, store, nextId, schedVars, dispLog, enqLog, crashes>>

Next ==
    \/ AdvanceClock
    \/ \E tt \in 0..MaxTrigger : create_alarm(tt)
    \/ start_open
    \/ delete_old_alarms
    \/ check_alarms
    \/ commit
    \/ tick_fail
    \/ shutdown
    \/ proc_get
    \/ proc_done

Spec == Init /\ [][Next]_vars

\* ---- a pass in which process_alarm raises ----
NextFiring ==
    \/ Next
    \/ check_alarms_raising

SpecFiring == Init /\ [][NextFiring]_vars

\* ---- continuous operation ----
\* the behaviours of Spec in which every pass commits, every sleep ends at
\* the instant it is due, nothing is shut down, and every alarm is created
\* before its trigger time

punctual_AdvanceClock ==
    /\ schedPc = "Sleeping" => clock < wakeAt
    /\ AdvanceClock

timely_create_alarm(tt) ==
    /\ tt > clock
    /\ create_alarm(tt)

NextContinuous ==
    \/ punctual_AdvanceClock
    \/ \E tt \in 0..MaxTrigger : timely_create_alarm(tt)
    \/ start_open
    \/ delete_old_alarms
    \/ check_alarms
    \/ commit
    \/ proc_get
    \/ proc_done

SpecContinuous == Init /\ [][NextContinuous]_vars

\* ---- a run that is not shut down ----
\* No task is cancelled, on a host whose clock is UTC, with every alarm
\* created before its trigger time.  The event loop runs every task that is
\* ready: the scheduler's sleep ends at the instant it is due, a pass, which
\* never suspends, runs to its end (its commit may fail), a dispatch
\* terminates, and the processor's queue wait returns once the queue holds
\* an item.

InitRunning == Init /\ tz = 0

NextRunning ==
    \/ punctual_AdvanceClock
    \/ \E tt \in 0..MaxTrigger : timely_create_alarm(tt)
    \/ start_open
    \/ delete_old_alarms
    \/ check_alarms
    \/ commit
    \/ tick_fail
    \/ proc_get
    \/ proc_done

SpecRunning ==
    /\ InitRunning
    /\ [][NextRunning]_vars
    /\ WF_vars(delete_old_alarms)
    /\ WF_vars(check_alarms)
    /\ WF_vars(commit \/ tick_fail)
    /\ WF_vars(proc_get)
    /\ WF_vars(proc_done)

\* ---- process crash and restart ----

\* the process dies at any point and is started again: the in-memory queue and
\* the open session are lost, the committed rows stay
crash ==
    /\ crashes < MaxCrashes
    /\ schedPc # "Stopped"
    /\ crashes' = crashes + 1
    /\ event_queue' = <<>>
    /\ pendingDel' = {}
    /\ work' = <<>>
    /\ schedPc' = "Sleeping"
    /\ wakeAt' = 0
    /\ passTime' = 0
    /\ nowDel' = 0
    /\ nowChk' = 0
    /\ commitsInPass' = 0
    /\ procPc' = "Waiting"
    /\ current' = NoEvent
    /\ lastOutcome' = "none"
    /\ UNCHANGED turnVars
    /\ UNCHANGED <<clock, tz, store, nextId, dispLog, enqLog>>

NextCrash == Next \/ crash

SpecCrash == Init /\ [][NextCrash]_vars

\* ---- AlarmService.start of the inline service (hangoutsscheduler) ----
\* process_alarm awaits the language model inside the pass's session

\* check_alarms: the select; the rows are then processed one by one
inline_check_alarms ==
    /\ schedPc = "Evicted"
    /\ nowChk' = LocalNow
    /\ \E order \in Orders(ActiveAlarms(store, LocalNow)) : work' = order
    /\ schedPc' = IF ActiveAlarms(store, LocalNow) = {} THEN "Checked" ELSE "Processing"
    /\ UNCHANGED turnVars
    /\ UNCHANGED <<clock, tz, store, nextId, wakeAt, passTime, pendingDel, nowDel, event_queue,
                   procVars, commitsInPass, enqLog, crashes>>

\* process_alarm up to: await self.llm_service.respond_to_system_event(...)
inline_process_alarm ==
    /\ schedPc = "Processing"
    /\ schedPc' = "AwaitLlm"
    /\ enqLog' = Append(enqLog, Head(work).alarm_id)
    /\ UNCHANGED turnVars
    /\ UNCHANGED <<clock, tz, store, nextId, wakeAt, passTime, pendingDel, work, nowDel, nowChk,
                   event_queue, procVars, commitsInPass, crashes>>

\* the await ends: _invoke_llm commits the session and returns, then
\* session.delete(alarm); or it raises and process_alarm logs the exception
inline_llm_done ==
    /\ schedPc = "AwaitLlm"
    /\ \E ok \in BOOLEAN :
          IF ok
          THEN /\ store' = CommitStore(store, pendingDel)
               /\ pendingDel' = {Head(work).alarm_id}
               /\ commitsInPass' = commitsInPass + 1
          ELSE UNCHANGED <<store, pendingDel, commitsInPass>>
    /\ work' = Tail(work)
    /\ schedPc' = IF Tail(work) = <<>> THEN "Checked" ELSE "Processing"
    /\ UNCHANGED turnVars
    /\ UNCHANGED <<clock, tz, nextId, wakeAt, passTime, nowDel, nowChk, event_queue, procVars,
                   enqLog, crashes>>

\* task.cancel(): CancelledError is raised at the await the scheduler is
\* suspended in, the sleep or the language-model call; except Exception does
\* not catch it, the session closes and the loop ends
inline_shutdown ==
    /\ schedPc \in {"Sleeping", "AwaitLlm"}
    /\ schedPc' = "Stopped"
    /\ pendingDel' = {}
    /\ work' = <<>>
    /\ UNCHANGED turnVars
    /\ UNCHANGED <<clock, tz, store, nextId, wakeAt, passTime, nowDel, nowChk, event_queue,
                   procVars, commitsInPass, enqLog, crashes>>

NextInline ==
    \/ AdvanceClock
    \/ \E tt \in 0..MaxTrigger : create_alarm(tt)
    \/ start_open
    \/ delete_old_alarms
    \/ inline_check_alarms
    \/ inline_process_alarm
    \/ inline_llm_done
    \/ commit
    \/ tick_fail
    \/ inline_shutdown

SpecInline == Init /\ [][NextInline]_vars

\* ---- chat histories and their merge ----

\* BaseMessage.id is Optional[str]: a message built without an id has None
None == "None"

\* a TimeStampedMessage, or a ChatMessage of the hangoutsscheduler models
\* (there the fields are id, datetime and content); all of type human or AI
Messages == [id : MessageIds \cup {None}, timestamp : Timestamps, content : Contents]

\* the sequences of exactly n messages
HistoriesOfLen(n) == [1..n -> Messages]

\* UserContextService.CHAT_HISTORY_LIMIT, 16 in the source
CHAT_HISTORY_LIMIT == 2

\* pickle.dumps / pickle.loads
pickle_dumps(x) == <<"pickle", x>>
pickle_loads(b) == b[2]

\* UserContextORM.user_chat_history setter: each item pickled, then the list
user_chat_history_setter(value) ==
    pickle_dumps([i \in DOMAIN value |-> pickle_dumps(value[i])])

\* UserContextORM.user_chat_history getter; an empty column is the empty list
user_chat_history_getter(column) ==
    IF column = <<>> THEN <<>>
    ELSE LET history_jsons == pickle_loads(column)
         IN  [i \in DOMAIN history_jsons |-> pickle_loads(history_jsons[i])]

\* json.dumps / json.loads of the list of ChatMessage.to_dict()
json_dumps(x) == <<"json", x>>
json_loads(b) == b[2]

\* ChatHistory.history setter and getter
history_setter(value) == json_dumps(value)
history_getter(column) == IF column = <<>> THEN <<>> ELSE json_loads(column)

\* itertools.chain(*histories)
RECURSIVE chain(_)
chain(histories) ==
    IF histories = <<>> THEN <<>> ELSE Head(histories) \o chain(Tail(histories))

\* key in unique_messages (a dict, which keeps insertion order)
HasKey(unique_messages, id) ==
    \E i \in DOMAIN unique_messages : unique_messages[i].id = id

\* unique_messages[id] = message on a key the dict holds: the value is
\* replaced, the key keeps its place
SetKey(unique_messages, message) ==
    [i \in DOMAIN unique_messages |->
        IF unique_messages[i].id = message.id THEN message ELSE unique_messages[i]]

\* the loop of merge_chat_history over the chained messages
RECURSIVE merge_loop(_, _)
merge_loop(unique_messages, messages) ==
    IF messages = <<>> THEN [raised |-> FALSE, value |-> unique_messages]
    ELSE LET message == Head(messages)
         IN  IF message.id # None /\ ~HasKey(unique_messages, message.id)
             THEN merge_loop(Append(unique_messages, message), Tail(messages))
             ELSE IF message.id = None
             THEN [raised |-> TRUE, value |-> <<>>]
             ELSE merge_loop(unique_messages, Tail(messages))

\* a merge in which the latest message of an id replaces the earlier one
RECURSIVE merge_loop_last_wins(_, _)
merge_loop_last_wins(unique_messages, messages) ==
    IF messages = <<>> THEN [raised |-> FALSE, value |-> unique_messages]
    ELSE LET message == Head(messages)
         IN  IF message.id = None THEN [raised |-> TRUE, value |-> <<>>]
             ELSE IF HasKey(unique_messages, message.id)
             THEN merge_loop_last_wins(SetKey(unique_messages, message), Tail(messages))
             ELSE merge_loop_last_wins(Append(unique_messages, message), Tail(messages))

merge_last_wins(histories) == merge_loop_last_wins(<<>>, chain(histories))

\* a merge that checks the ids and keeps every message
merge_no_dedup(histories) ==
    IF \E i \in DOMAIN chain(histories) : chain(histories)[i].id = None
    THEN [raised |-> TRUE, value |-> <<>>]
    ELSE [raised |-> FALSE, value |-> chain(histories)]

\* the first n items of a list: list[:n]
FirstItems(list, n) ==
    IF Len(list) <= n THEN list ELSE SubSeq(list, 1, n)

\* the last n items of a list: list[-n:] for n > 0
LastItems(list, n) ==
    IF Len(list) <= n THEN list ELSE SubSeq(list, Len(list) - n + 1, Len(list))

\* a merge that cuts its result to the per-user bound
merge_truncating(histories) ==
    LET r == merge_loop(<<>>, chain(histories))
    IN  [raised |-> r.raised, value |-> LastItems(r.value, CHAT_HISTORY_LIMIT)]

\* Orchestrator.merge_chat_history(*histories)
merge_chat_history(histories) == merge_loop(<<>>, chain(histories))

\* the dedup loop of encode_context_histories: no test of the id, None is a
\* key like any other
RECURSIVE encode_dedup(_, _)
encode_dedup(unique_messages, messages) ==
    IF messages = <<>> THEN unique_messages
    ELSE IF ~HasKey(unique_messages, Head(messages).id)
         THEN encode_dedup(Append(unique_messages, Head(messages)), Tail(messages))
         ELSE encode_dedup(unique_messages, Tail(messages))

\* one step of the stable sort: message goes behind every message that is
\* not later than it
RECURSIVE insert_by_datetime(_, _)
insert_by_datetime(sorted_messages, message) ==
    IF sorted_messages = <<>> THEN <<message>>
    ELSE IF Head(sorted_messages).timestamp <= message.timestamp
         THEN <<Head(sorted_messages)>> \o insert_by_datetime(Tail(sorted_messages), message)
         ELSE <<message>> \o sorted_messages

\* sorted(messages, key=get_comparable_datetime), a stable sort
RECURSIVE sorted(_)
sorted(messages) ==
    IF messages = <<>> THEN <<>>
    ELSE insert_by_datetime(sorted(SubSeq(messages, 1, Len(messages) - 1)),
                            messages[Len(messages)])

\* LlmService.encode_context_histories: collect, deduplicate, sort, and
\* convert each message to a HumanMessage or AIMessage of its content
encode_context_histories(histories) ==
    LET sorted_messages == sorted(encode_dedup(<<>>, chain(histories)))
    IN  [raised |-> FALSE,
         value |-> [i \in DOMAIN sorted_messages |-> sorted_messages[i].content]]

\* the outcome of a call, recorded
Done(r) == [done |-> TRUE, raised |-> r.raised, value |-> r.value]

\* the histories a turn of the orchestrator merges, in source order
TurnHistories == <<immediate_history, user_chat_history_getter(user_chat_history)>>

\* the histories of a turn of the hangoutsscheduler integration: the user's
\* chat history, then the channel history appended to it
ContextHistories == <<history_getter(chat_history), immediate_history>>

\* a turn arrives with its immediate history; the user's row holds a history
\* within the per-user bound
InitMerge ==
    /\ InitAlarm
    /\ tz = 0
    /\ \E n2 \in 0..CHAT_HISTORY_LIMIT :
          \E n1 \in 0..(MaxMessages - n2) :
              /\ immediate_history \in HistoriesOfLen(n1)
              /\ \E h \in HistoriesOfLen(n2) :
                    /\ user_chat_history = user_chat_history_setter(h)
                    /\ chat_history = history_setter(h)
    /\ merged = NotRun
    /\ encoded = NotRun
    /\ appendLog = <<>>
    /\ chatLog = <<>>
    /\ requested = <<>>
    /\ InitSide

\* handle_user_event up to the merge of the two histories
handle_user_event_merge ==
    /\ ~merged.done
    /\ merged' = Done(merge_chat_history(TurnHistories))
    /\ UNCHANGED alarmVars
    /\ UNCHANGED <<result, sideVars>>
    /\ UNCHANGED <<immediate_history, user_chat_history, encoded, chat_history,
                   appendLog, chatLog, requested>>

\* respond_to_user_message up to the encoding of the context histories
respond_to_user_message_encode ==
    /\ ~encoded.done
    /\ encoded' = Done(encode_context_histories(ContextHistories))
    /\ UNCHANGED alarmVars
    /\ UNCHANGED <<result, sideVars>>
    /\ UNCHANGED <<immediate_history, user_chat_history, merged, chat_history,
                   appendLog, chatLog, requested>>

NextMerge ==
    \/ handle_user_event_merge
    \/ respond_to_user_message_encode

SpecMerge == InitMerge /\ [][NextMerge]_vars

\* ---- appends to a user's stored history ----

\* the number of messages _update_history keeps, 8 in the source
HISTORY_KEEP == 2

\* create_user_context: session.add of a row with an empty history
create_user_context ==
    /\ user_chat_history = <<>>
    /\ user_chat_history' = user_chat_history_setter(<<>>)
    /\ UNCHANGED alarmVars
    /\ UNCHANGED <<result, sideVars>>
    /\ UNCHANGED <<immediate_history, merged, encoded, chat_history, appendLog, chatLog,
                   requested>>

\* append_message_to_user_context on the user's row, which exists
append_message_to_user_context(message) ==
    /\ user_chat_history # <<>>
    /\ Len(appendLog) + Len(chatLog) < MaxAppends
    /\ user_chat_history' =
           user_chat_history_setter(
               LastItems(Append(user_chat_history_getter(user_chat_history), message),
                         CHAT_HISTORY_LIMIT))
    /\ appendLog' = Append(appendLog, message)
    /\ UNCHANGED alarmVars
    /\ UNCHANGED <<result, sideVars>>
    /\ UNCHANGED <<immediate_history, merged, encoded, chat_history, chatLog, requested>>

\* _get_or_create_chat_history, then _update_history with the new entry
update_history(new_entry) ==
    /\ Len(appendLog) + Len(chatLog) < MaxAppends
    /\ chat_history' =
           history_setter(
               LastItems(history_getter(chat_history) \o <<new_entry>>, HISTORY_KEEP))
    /\ chatLog' = Append(chatLog, new_entry)
    /\ UNCHANGED alarmVars
    /\ UNCHANGED <<result, sideVars>>
    /\ UNCHANGED <<immediate_history, user_chat_history, merged, encoded, appendLog,
                   requested>>

NextAppend ==
    \/ create_user_context
    \/ \E message \in Messages : append_message_to_user_context(message)
    \/ \E new_entry \in Messages : update_history(new_entry)

\* no row yet for the user
InitAppend == Init /\ tz = 0

SpecAppend == InitAppend /\ [][NextAppend]_vars

\* ---- alarm tools: the timestamp of an alarm ----

\* what is not an ISO-8601 timestamp
Malformed == [valid |-> FALSE, wall |-> 0, aware |-> FALSE, offset |-> 0]

\* the trigger_time strings a tool call may carry: a wall-clock reading,
\* naive or followed by a UTC offset, or a malformed string
TimestampStrings ==
    {s \in [valid : {TRUE}, wall : 0..MaxTrigger, aware : BOOLEAN, offset : UtcOffsets] :
        ~s.aware => s.offset = 0}
    \cup {Malformed}

\* datetime.fromisoformat that accepts every string
fromisoformat_lenient(s) ==
    [raised |-> FALSE, wall |-> s.wall, aware |-> s.aware, offset |-> s.offset]

\* datetime.fromisoformat(trigger_time): ValueError on a malformed string
fromisoformat(s) ==
    [raised |-> ~s.valid, wall |-> s.wall, aware |-> s.aware, offset |-> s.offset]

\* alarm_time.replace(tzinfo=timezone.utc): the reading is kept
replace_tzinfo_utc(dt) == [dt EXCEPT !.aware = TRUE, !.offset = 0]

\* alarm_time.astimezone(timezone.utc): the instant is kept
astimezone_utc(dt) == [dt EXCEPT !.wall = dt.wall - dt.offset, !.offset = 0]

\* if alarm_time.tzinfo is None: ... else: ...
normalize_utc(dt) == IF ~dt.aware THEN replace_tzinfo_utc(dt) ELSE astimezone_utc(dt)

\* the DateTime column keeps the wall-clock reading and drops the tzinfo
ColumnValue(dt) == dt.wall

\* the row of the alarm with its trigger_time set
WithTriggerTime(rows, alarm_id, t) ==
    {IF a.alarm_id = alarm_id THEN [a EXCEPT !.trigger_time = t] ELSE a : a \in rows}

\* a string the tool returns, and for list_alarms the rendered alarms
Returned(kind) == [kind |-> kind, alarms |-> <<>>]

\* AlarmService.create_alarm(session, trigger_time, ...), committed by the turn
AlarmService_create_alarm(trigger_time, user_id) ==
    /\ nextId <= MaxAlarms
    /\ LET alarm_time == fromisoformat(trigger_time)
       IN  IF alarm_time.raised
           THEN /\ result' = Returned("Failed to create alarm")
                /\ UNCHANGED <<store, nextId, requested>>
           ELSE /\ store' = store \cup
                        {[alarm_id |-> nextId,
                          trigger_time |-> ColumnValue(normalize_utc(alarm_time)),
                          description |-> DescriptionOf(nextId),
                          user_id |-> user_id]}
                /\ nextId' = nextId + 1
                /\ requested' = Append(requested, trigger_time)
                /\ result' = Returned("Alarm created")
    /\ UNCHANGED <<clock, tz, schedVars, event_queue, procVars, enqLog, crashes>>
    /\ UNCHANGED <<immediate_history, user_chat_history, merged, encoded, chat_history,
                   appendLog, chatLog>>
    /\ UNCHANGED sideVars

\* update_alarm is called without a description
NoDescription == <<>>

\* the description an update passes
NewDescription == <<"description", 0>>

\* the description argument of an update_alarm call
UpdateDescriptions == {NoDescription, NewDescription}

\* if description: alarm.description = description
WithDescription(rows, alarm_id, description) ==
    IF description = NoDescription
    THEN rows
    ELSE {IF a.alarm_id = alarm_id THEN [a EXCEPT !.description = description] ELSE a :
             a \in rows}

\* the description is assigned before the timestamp is parsed
DescribedBeforeParse(rows, alarm_id, description) ==
    WithDescription(rows, alarm_id, description)

\* the row when fromisoformat raised: the ValueError leaves the try before
\* either attribute is assigned
AfterValueError(rows, alarm_id, description) == rows

\* AlarmService.update_alarm(session, alarm_id, trigger_time, description), committed
AlarmService_update_alarm(alarm_id, trigger_time, description) ==
    /\ LET alarm_time == fromisoformat(trigger_time)
       IN  IF alarm_id \notin IdsOf(store)
           THEN /\ result' = Returned("Alarm not found")
                /\ UNCHANGED <<store, requested>>
           ELSE IF alarm_time.raised
           THEN /\ result' = Returned("Failed to update alarm")
                /\ store' = AfterValueError(store, alarm_id, description)
                /\ UNCHANGED requested
           ELSE /\ store' = WithDescription(
                                WithTriggerTime(store, alarm_id,
                                                ColumnValue(normalize_utc(alarm_time))),
                                alarm_id, description)
                /\ requested' = [requested EXCEPT ![alarm_id] = trigger_time]
                /\ result' = Returned("Alarm updated")
    /\ UNCHANGED <<clock, tz, nextId, schedVars, event_queue, procVars, enqLog, crashes>>
    /\ UNCHANGED <<immediate_history, user_chat_history, merged, encoded, chat_history,
                   appendLog, chatLog>>
    /\ UNCHANGED sideVars

\* session.delete(alarm) of every alarm up to the given one
WithoutAlarmsUpTo(rows, alarm_id) == {a \in rows : a.alarm_id > alarm_id}

\* session.delete(alarm), committed
WithoutAlarm(rows, alarm_id) == {a \in rows : a.alarm_id # alarm_id}

\* AlarmService.delete_alarm(session, alarm_id), committed
AlarmService_delete_alarm(alarm_id) ==
    /\ IF alarm_id \notin IdsOf(store)
       THEN /\ result' = Returned("Alarm not found")
            /\ UNCHANGED store
       ELSE /\ store' = WithoutAlarm(store, alarm_id)
            /\ result' = Returned("Alarm deleted")
    /\ UNCHANGED <<clock, tz, nextId, schedVars, event_queue, procVars, enqLog, crashes>>
    /\ UNCHANGED <<immediate_history, user_chat_history, merged, encoded, chat_history,
                   appendLog, chatLog, requested>>
    /\ UNCHANGED sideVars

\* datetime.now(timezone.utc), as the DateTime column compares it
UtcNow == clock

\* Alarm.trigger_time >= now
NotPast(rows, now) == {a \in rows : a.trigger_time >= now}

\* query.filter(Alarm.trigger_time > now)
Future(rows, now) == {a \in rows : a.trigger_time > now}

\* Alarm.__str__
AlarmStr(a) ==
    [alarm_id |-> a.alarm_id, description |-> a.description, trigger_time |-> a.trigger_time]

\* order_by(Alarm.trigger_time): the orders of the rows the database may return
OrderByTriggerTime(rows) ==
    {order \in Orders(rows) :
        \A i, j \in DOMAIN order : i < j => order[i].trigger_time <= order[j].trigger_time}

\* AlarmService.list_alarms(session, user_id, include_past)
AlarmService_list_alarms(user_id, include_past) ==
    /\ LET query == {a \in store : a.user_id = user_id}
           filtered == IF ~include_past THEN Future(query, UtcNow) ELSE query
       IN  \E alarms \in OrderByTriggerTime(filtered) :
              result' = IF alarms = <<>>
                        THEN Returned("No alarms found")
                        ELSE [kind |-> "listed",
                              alarms |-> [i \in DOMAIN alarms |-> AlarmStr(alarms[i])]]
    /\ UNCHANGED <<clock, tz, store, nextId, schedVars, event_queue, procVars, enqLog,
                   crashes>>
    /\ UNCHANGED <<immediate_history, user_chat_history, merged, encoded, chat_history,
                   appendLog, chatLog, requested>>
    /\ UNCHANGED sideVars

\* AlarmToolAdapter.create_alarm of the hangoutsscheduler package: the parsed
\* datetime is stored as it is
AlarmToolAdapter_create_alarm(trigger_time) ==
    /\ nextId <= MaxAlarms
    /\ LET alarm_time == fromisoformat(trigger_time)
       IN  IF alarm_time.raised
           THEN /\ result' = Returned("Failed to create alarm")
                /\ UNCHANGED <<store, nextId, requested>>
           ELSE /\ store' = store \cup
                        {[alarm_id |-> nextId,
                          trigger_time |-> ColumnValue(alarm_time),
                          description |-> DescriptionOf(nextId),
                          user_id |-> CliUser]}
                /\ nextId' = nextId + 1
                /\ requested' = Append(requested, trigger_time)
                /\ result' = Returned("Alarm created")
    /\ UNCHANGED <<clock, tz, schedVars, event_queue, procVars, enqLog, crashes>>
    /\ UNCHANGED <<immediate_history, user_chat_history, merged, encoded, chat_history,
                   appendLog, chatLog>>
    /\ UNCHANGED sideVars

\* AlarmToolAdapter.update_alarm of the hangoutsscheduler package
AlarmToolAdapter_update_alarm(alarm_id, trigger_time) ==
    /\ LET alarm_time == fromisoformat(trigger_time)
       IN  IF alarm_id \notin IdsOf(store)
           THEN /\ result' = Returned("Alarm not found")
                /\ UNCHANGED <<store, requested>>
           ELSE IF alarm_time.raised
           THEN /\ result' = Returned("Failed to update alarm")
                /\ UNCHANGED <<store, requested>>
           ELSE /\ store' = WithTriggerTime(store, alarm_id, ColumnValue(alarm_time))
                /\ requested' = [requested EXCEPT ![alarm_id] = trigger_time]
                /\ result' = Returned("Alarm updated")
    /\ UNCHANGED <<clock, tz, nextId, schedVars, event_queue, procVars, enqLog, crashes>>
    /\ UNCHANGED <<immediate_history, user_chat_history, merged, encoded, chat_history,
                   appendLog, chatLog>>
    /\ UNCHANGED sideVars

NextTools ==
    \/ \E s \in TimestampStrings : AlarmService_create_alarm(s, CliUser)
    \/ \E id \in 1..MaxAlarms, s \in TimestampStrings :
          AlarmService_update_alarm(id, s, NoDescription)
    \/ \E s \in TimestampStrings : AlarmToolAdapter_create_alarm(s)
    \/ \E id \in 1..MaxAlarms, s \in TimestampStrings : AlarmToolAdapter_update_alarm(id, s)

\* an empty alarm table
InitTools == Init /\ tz = 0

SpecTools == InitTools /\ [][NextTools]_vars

\* ---- alarm tools: create, update, delete and list ----

\* the trigger_time strings of the tool calls: the naive readings, one reading
\* with a UTC offset that lies before now, and a malformed string
ToolCallStrings ==
    {s \in TimestampStrings : s.valid /\ ~s.aware}
    \cup {[valid |-> TRUE, wall |-> 0, aware |-> TRUE, offset |-> 1]}
    \cup {Malformed}

NextAlarmTools ==
    \/ \E s \in ToolCallStrings, u \in UserIds : AlarmService_create_alarm(s, u)
    \/ \E id \in 1..MaxAlarms, s \in ToolCallStrings :
          AlarmService_update_alarm(id, s, NoDescription)
    \/ \E id \in 1..MaxAlarms : AlarmService_delete_alarm(id)
    \/ \E u \in UserIds, include_past \in BOOLEAN : AlarmService_list_alarms(u, include_past)

\* an empty alarm table
InitAlarmTools == Init /\ tz = 0

SpecAlarmTools == InitAlarmTools /\ [][NextAlarmTools]_vars

\* ---- alarm tools: updates that pass a description ----

\* the trigger_time strings of the calls: the naive readings and a malformed string
UpdateStrings == {s \in ToolCallStrings : ~s.valid \/ ~s.aware}

NextUpdate ==
    \/ \E s \in UpdateStrings : AlarmService_create_alarm(s, CliUser)
    \/ \E id \in 1..MaxAlarms, s \in UpdateStrings, d \in UpdateDescriptions :
          AlarmService_update_alarm(id, s, d)

SpecUpdate == InitAlarmTools /\ [][NextUpdate]_vars

\* ---- MessageValidator ----

\* what str.split() splits on
Whitespace == {" ", "\t"}

\* the strings of at most n characters
StringsUpTo(n) == UNION {[1..k -> Chars] : k \in 0..n}

\* str.split(): the maximal runs of characters that are not whitespace
RECURSIVE split_from(_, _, _)
split_from(string, i, token) ==
    LET closed == IF token = <<>> THEN <<>> ELSE <<token>>
    IN  IF i > Len(string)
        THEN closed
        ELSE IF string[i] \in Whitespace
        THEN closed \o split_from(string, i + 1, <<>>)
        ELSE split_from(string, i + 1, Append(token, string[i]))

split(string) == split_from(string, 1, <<>>)

\* sep.join(tokens)
RECURSIVE join(_, _)
join(sep, tokens) ==
    IF tokens = <<>> THEN <<>>
    ELSE IF Len(tokens) = 1 THEN tokens[1]
    ELSE tokens[1] \o sep \o join(sep, Tail(tokens))

\* len(tokens) >= self.max_tokens
ReachesLimit(n, limit) == n >= limit

\* len(tokens) > self.max_tokens
ExceedsLimit(n, limit) == n > limit

\* tokens[-n:]
LastTokens(tokens, n) == SubSeq(tokens, Len(tokens) - n + 1, Len(tokens))

\* tokens[:n], n not negative
FirstTokens(tokens, n) == SubSeq(tokens, 1, IF n < Len(tokens) THEN n ELSE Len(tokens))

\* MessageValidator.validate_token_count
validate_token_count(string, limit) ==
    LET tokens == split(string)
    IN  IF ExceedsLimit(Len(tokens), limit)
        THEN join(<<" ">>, FirstTokens(tokens, limit))
        ELSE string

\* a validator with a positive limit is given a message
InitValidate ==
    /\ InitAlarm
    /\ tz = 0
    /\ InitChat
    /\ result = NoResult
    /\ InitLoop
    /\ InitMore
    /\ InitStarted
    /\ max_tokens \in 1..MaxTokenLimit
    /\ raw_message \in StringsUpTo(MaxChars)
    /\ validated = NotValidated

\* MessageValidator.validate_message
validate_message ==
    /\ ~validated.done
    /\ validated' = [done |-> TRUE, value |-> validate_token_count(raw_message, max_tokens)]
    /\ UNCHANGED <<alarmVars, immediate_history, user_chat_history, merged, encoded,
                   chat_history, appendLog, chatLog, requested, result, loopVars, startVars,
                   max_tokens, raw_message, moreVars>>

NextValidate == validate_message

SpecValidate == InitValidate /\ [][NextValidate]_vars

\* ---- process start: main() under asyncio.run ----

\* the process starts with any combination of the credentials and arguments
InitStartup ==
    /\ InitAlarm
    /\ tz = 0
    /\ InitChat
    /\ result = NoResult
    /\ InitLoop
    /\ InitMore
    /\ InitValidator
    /\ environ \in [OPENAI_API_KEY : BOOLEAN, discord : BOOLEAN, discord_token : BOOLEAN,
                    DISCORD_TOKEN : BOOLEAN]
    /\ mainPc = "Start"
    /\ tasks = [t \in TaskNames |-> "none"]
    /\ ready = <<>>

\* what startup leaves alone
runningVars == <<alarmVars, immediate_history, user_chat_history, merged, encoded,
                 chat_history, appendLog, chatLog, requested, result, loopVars,
                 validatorVars, moreVars>>

\* asyncio.create_task(coro): the task's first step is queued with call_soon
create_task(t) ==
    /\ tasks' = [tasks EXCEPT ![t] = "scheduled"]
    /\ ready' = Append(ready, t)

\* an exception leaves main(): the main task is done and the callback that
\* stops the loop is queued with call_soon, behind what is already queued
main_raises ==
    /\ mainPc' = "Raised"
    /\ ready' = Append(ready, "stop")
    /\ UNCHANGED tasks

\* parse_arguments, setup_logging, setup_database
main_setup ==
    /\ mainPc = "Start"
    /\ mainPc' = "SetUp"
    /\ UNCHANGED <<environ, tasks, ready, runningVars>>

\* init_services: raise Exception("OPENAI_API_KEY is not set")
main_init_services ==
    /\ mainPc = "SetUp"
    /\ IF ~environ.OPENAI_API_KEY
       THEN main_raises
       ELSE mainPc' = "Initialized" /\ UNCHANGED <<tasks, ready>>
    /\ UNCHANGED <<environ, runningVars>>

\* alarm_service_task = asyncio.create_task(alarm_service.start())
main_create_alarm_service_task ==
    /\ mainPc = "Initialized"
    /\ create_task("alarm_service")
    /\ mainPc' = "SchedulerCreated"
    /\ UNCHANGED <<environ, runningVars>>

\* alarm_event_processor_task = asyncio.create_task(alarm_event_processor(...))
main_create_alarm_event_processor_task ==
    /\ mainPc = "SchedulerCreated"
    /\ create_task("alarm_event_processor")
    /\ mainPc' = "ProcessorCreated"
    /\ UNCHANGED <<environ, runningVars>>

\* if args.discord: the token from the argument, else os.environ["DISCORD_TOKEN"],
\* which raises KeyError when unset; else: the console integration
main_create_integration_task ==
    /\ mainPc = "ProcessorCreated"
    /\ IF environ.discord /\ ~environ.discord_token /\ ~environ.DISCORD_TOKEN
       THEN main_raises
       ELSE create_task("integration") /\ mainPc' = "IntegrationCreated"
    /\ UNCHANGED <<environ, runningVars>>

\* await asyncio.gather(*tasks): main() suspends for the first time
main_gather ==
    /\ mainPc = "IntegrationCreated"
    /\ mainPc' = "Gathering"
    /\ UNCHANGED <<environ, tasks, ready, runningVars>>

\* the event loop runs the callback at the head of its queue, once main() has
\* suspended or ended: the first step of a task, or the stop of the loop, after
\* which asyncio.run cancels the tasks that remain
run_once ==
    /\ mainPc \in {"Raised", "Gathering"}
    /\ ready # <<>>
    /\ ready' = Tail(ready)
    /\ IF Head(ready) = "stop"
       THEN /\ mainPc' = "Aborted"
            /\ tasks' = [t \in TaskNames |->
                           IF tasks[t] = "running" THEN "cancelled while running"
                           ELSE IF tasks[t] = "scheduled" THEN "cancelled unstarted"
                           ELSE tasks[t]]
       ELSE /\ tasks' = [tasks EXCEPT ![Head(ready)] = "running"]
            /\ UNCHANGED mainPc
    /\ UNCHANGED <<environ, runningVars>>

NextStartup ==
    \/ main_setup
    \/ main_init_services
    \/ main_create_alarm_service_task
    \/ main_create_alarm_event_processor_task
    \/ main_create_integration_task
    \/ main_gather
    \/ run_once

SpecStartup == InitStartup /\ [][NextStartup]_vars

\* ---- message turns: the console loop and the chat-platform listener ----

\* the ids that uuid.uuid4(), the language model and the chat platform hand out,
\* none of them twice
IdNames == <<"m1", "m2", "m3", "m4", "m5", "m6", "m7", "m8">>

\* str(uuid.uuid4()) of the turn's user message; str(message.id) of the
\* chat platform's message
MessageIdOf(n) == IdNames[2 * n - 1]

\* last_message.id of the turn's response
ResponseIdOf(n) == IdNames[2 * n]

\* the rows other loops can read
Committed ==
    [user_chat_history |-> user_chat_history, chat_history |-> chat_history,
     store |-> store, immediate_history |-> immediate_history]

\* session_factory(): the session starts from the committed rows
OpenSession ==
    [user_chat_history |-> user_chat_history, chat_history |-> chat_history,
     rows |-> store, nextId |-> nextId]

\* session.commit() of a turn: the rows the session added or deleted since it
\* was opened on the rows before, applied to the committed rows
CommitSession(rows, before, after) ==
    {a \in rows : a.alarm_id \notin IdsOf(before) \ IdsOf(after)} \cup (after \ before)

\* the console or the listener, as main() chose
Integration == IF environ.discord THEN "discord" ELSE "cli"

\* the exception leaves the loop
AfterTurnExceptionEscapes == "Stopped"

\* except Exception: the loop reads the next message
AfterTurnException == "Reading"

\* an exception in the turn: the with block closes the session without commit,
\* the handler reports the error to the user
turn_raises ==
    /\ session' = NoSession
    /\ reported' = "error"
    /\ turnPc' = AfterTurnException
    /\ UNCHANGED <<turn, snapshot, turns>>

\* CliIntegration.start: input() returns, the message is built and handed to
\* the orchestrator, which opens its session
cli_read_message ==
    /\ Integration = "cli"
    /\ turnPc = "Reading"
    /\ turns < MaxTurns
    /\ turns' = turns + 1
    /\ turn' = [integration |-> "cli",
                message |-> [id |-> MessageIdOf(turns + 1), timestamp |-> turns + 1,
                             content |-> "x"],
                response |-> <<>>]
    /\ session' = OpenSession
    /\ snapshot' = Committed
    /\ turnPc' = "Handling"
    /\ reported' = "none"
    /\ UNCHANGED <<alarmVars, immediate_history, user_chat_history, merged, encoded,
                   chat_history, appendLog, chatLog, requested, result, startVars,
                   validatorVars, moreVars>>

\* handle_user_event: resolve_user_context or create_user_context, then
\* merge_chat_history of the immediate and the stored history
handle_user_event_resolve ==
    /\ turn.integration = "cli"
    /\ turnPc = "Handling"
    /\ \E ok \in BOOLEAN :
          LET row == IF session.user_chat_history = <<>>
                     THEN user_chat_history_setter(<<>>)
                     ELSE session.user_chat_history
              merged_message_history ==
                  merge_chat_history(<<immediate_history, user_chat_history_getter(row)>>)
          IN  IF ok /\ ~merged_message_history.raised
              THEN /\ session' = [session EXCEPT !.user_chat_history = row]
                   /\ turnPc' = "Invoking"
                   /\ UNCHANGED <<turn, snapshot, reported, turns>>
              ELSE turn_raises
    /\ UNCHANGED <<alarmVars, immediate_history, user_chat_history, merged, encoded,
                   chat_history, appendLog, chatLog, requested, result, startVars,
                   validatorVars, moreVars>>

\* the agent calls the create_alarm tool: session.add, not committed
tool_create_alarm ==
    /\ turnPc = "Invoking"
    /\ session.nextId <= MaxAlarms
    /\ session' = [session EXCEPT
                      !.rows = @ \cup {[alarm_id |-> session.nextId,
                                        trigger_time |-> MaxTrigger,
                                        description |-> DescriptionOf(session.nextId),
                                        user_id |-> CliUser]},
                      !.nextId = @ + 1]
    /\ UNCHANGED <<turnPc, turn, snapshot, reported, turns>>
    /\ UNCHANGED <<alarmVars, immediate_history, user_chat_history, merged, encoded,
                   chat_history, appendLog, chatLog, requested, result, startVars,
                   validatorVars, moreVars>>

\* the agent calls the delete_alarm tool: session.delete, not committed
tool_delete_alarm(alarm_id) ==
    /\ turnPc = "Invoking"
    /\ alarm_id \in IdsOf(session.rows)
    /\ session' = [session EXCEPT !.rows = WithoutAlarm(@, alarm_id)]
    /\ UNCHANGED <<turnPc, turn, snapshot, reported, turns>>
    /\ UNCHANGED <<alarmVars, immediate_history, user_chat_history, merged, encoded,
                   chat_history, appendLog, chatLog, requested, result, startVars,
                   validatorVars, moreVars>>

\* LlmService.invoke_llm returns the response or raises
invoke_llm ==
    /\ turn.integration = "cli"
    /\ turnPc = "Invoking"
    /\ \E ok \in BOOLEAN :
          IF ok
          THEN /\ turn' = [turn EXCEPT !.response =
                              [id |-> ResponseIdOf(turns), timestamp |-> turns,
                               content |-> "y"]]
               /\ turnPc' = "Responded"
               /\ UNCHANGED <<session, snapshot, reported, turns>>
          ELSE turn_raises
    /\ UNCHANGED <<alarmVars, immediate_history, user_chat_history, merged, encoded,
                   chat_history, appendLog, chatLog, requested, result, startVars,
                   validatorVars, moreVars>>

\* the two append_message_to_user_context calls and session.commit(); then the
\* console prints the response and appends both messages to its history
handle_user_event_commit ==
    /\ turn.integration = "cli"
    /\ turnPc = "Responded"
    /\ \E ok \in BOOLEAN :
          IF ok
          THEN /\ user_chat_history' =
                      user_chat_history_setter(
                          LastItems(user_chat_history_getter(session.user_chat_history)
                                        \o <<turn.message, turn.response>>,
                                    CHAT_HISTORY_LIMIT))
               /\ store' = CommitSession(store, snapshot.store, session.rows)
               /\ nextId' = IF session.nextId > nextId THEN session.nextId ELSE nextId
               /\ immediate_history' = immediate_history \o <<turn.message, turn.response>>
               /\ session' = NoSession
               /\ reported' = "response"
               /\ turnPc' = "Reading"
               /\ UNCHANGED <<turn, snapshot, turns>>
          ELSE /\ turn_raises
               /\ UNCHANGED <<user_chat_history, store, nextId, immediate_history>>
    /\ UNCHANGED <<clock, tz, schedVars, event_queue, procVars, enqLog, crashes>>
    /\ UNCHANGED <<merged, encoded, chat_history, appendLog, chatLog, requested, result,
                   startVars, validatorVars, moreVars>>

\* on_message of the chat-platform listener: the message is built with the
\* platform's id and the session is opened
on_message ==
    /\ Integration = "discord"
    /\ turnPc = "Reading"
    /\ turns < MaxTurns
    /\ turns' = turns + 1
    /\ turn' = [integration |-> "discord",
                message |-> [id |-> MessageIdOf(turns + 1), timestamp |-> turns + 1,
                             content |-> "x"],
                response |-> <<>>]
    /\ session' = OpenSession
    /\ snapshot' = Committed
    /\ turnPc' = "Handling"
    /\ reported' = "none"
    /\ UNCHANGED <<alarmVars, immediate_history, user_chat_history, merged, encoded,
                   chat_history, appendLog, chatLog, requested, result, startVars,
                   validatorVars, moreVars>>

\* resolve_chat_history: _update_history with the user message, session.commit()
resolve_chat_history ==
    /\ turn.integration = "discord"
    /\ turnPc = "Handling"
    /\ \E ok \in BOOLEAN :
          IF ok
          THEN LET history == history_setter(
                                  LastItems(history_getter(session.chat_history)
                                                \o <<turn.message>>, HISTORY_KEEP))
               IN  /\ chat_history' = history
                   /\ session' = [session EXCEPT !.chat_history = history]
                   /\ turnPc' = "Invoking"
                   /\ UNCHANGED <<turn, snapshot, reported, turns>>
          ELSE turn_raises /\ UNCHANGED chat_history
    /\ UNCHANGED <<alarmVars, immediate_history, user_chat_history, merged, encoded,
                   appendLog, chatLog, requested, result, startVars, validatorVars, moreVars>>

\* _invoke_llm: agent.ainvoke returns and session.commit() follows, or raises
respond_to_user_message ==
    /\ turn.integration = "discord"
    /\ turnPc = "Invoking"
    /\ \E ok \in BOOLEAN :
          IF ok
          THEN /\ store' = session.rows
               /\ nextId' = session.nextId
               /\ turn' = [turn EXCEPT !.response =
                              [id |-> turn.message.id, timestamp |-> turn.message.timestamp,
                               content |-> "y"]]
               /\ turnPc' = "Responded"
               /\ UNCHANGED <<session, snapshot, reported, turns>>
          ELSE turn_raises /\ UNCHANGED <<store, nextId>>
    /\ UNCHANGED <<clock, tz, schedVars, event_queue, procVars, enqLog, crashes>>
    /\ UNCHANGED <<immediate_history, user_chat_history, merged, encoded, chat_history,
                   appendLog, chatLog, requested, result, startVars, validatorVars, moreVars>>

\* update_with_llm_response: _update_history with the response, session.commit(),
\* then message.reply
update_with_llm_response ==
    /\ turn.integration = "discord"
    /\ turnPc = "Responded"
    /\ \E ok \in BOOLEAN :
          IF ok
          THEN /\ chat_history' =
                      history_setter(
                          LastItems(history_getter(session.chat_history)
                                        \o <<turn.response>>, HISTORY_KEEP))
               /\ session' = NoSession
               /\ reported' = "response"
               /\ turnPc' = "Reading"
               /\ UNCHANGED <<turn, snapshot, turns>>
          ELSE turn_raises /\ UNCHANGED chat_history
    /\ UNCHANGED <<alarmVars, immediate_history, user_chat_history, merged, encoded,
                   appendLog, chatLog, requested, result, startVars, validatorVars, moreVars>>

NextLoop ==
    \/ cli_read_message
    \/ handle_user_event_resolve
    \/ tool_create_alarm
    \/ \E id \in 1..MaxAlarms : tool_delete_alarm(id)
    \/ invoke_llm
    \/ handle_user_event_commit
    \/ on_message
    \/ resolve_chat_history
    \/ respond_to_user_message
    \/ update_with_llm_response

\* the process runs with the console or with the chat-platform listener
InitLoopRunning ==
    /\ InitAlarm
    /\ tz = 0
    /\ InitChat
    /\ result = NoResult
    /\ InitLoop
    /\ InitMore
    /\ InitValidator
    /\ \E discord \in BOOLEAN :
          environ = [OPENAI_API_KEY |-> TRUE, discord |-> discord, discord_token |-> discord,
                     DISCORD_TOKEN |-> FALSE]
    /\ mainPc = "Gathering"
    /\ tasks = [t \in TaskNames |-> "running"]
    /\ ready = <<>>

SpecLoop == InitLoopRunning /\ [][NextLoop]_vars

\* ---- shutdown: main() leaves its wait and cancels its tasks ----

\* what the steps of shutdown leave alone in every loop but the one they stop
stillVars == <<clock, tz, store, nextId, wakeAt, passTime, pendingDel, work, nowDel, nowChk,
               event_queue, commitsInPass, enqLog, dispLog, crashes, lastOutcome,
               immediate_history, user_chat_history, merged, encoded, chat_history,
               appendLog, chatLog, requested, result, turn, snapshot, reported, turns,
               environ, ready, validatorVars, moreVars>>

\* main() leaves `await asyncio.gather(*tasks)` (a task raised, or main was
\* cancelled) and its finally calls task.cancel() on every task; main runs only
\* while the scheduler is suspended
main_finally ==
    /\ mainPc = "Gathering"
    /\ schedPc = "Sleeping"
    /\ mainPc' = "Cancelling"
    /\ tasks' = [t \in TaskNames |-> IF tasks[t] = "running" THEN "cancelling" ELSE tasks[t]]
    /\ UNCHANGED <<stillVars, schedPc, procPc, current, turnPc, session>>

\* the except clause goes round the while loop again
AfterSleepCancelledContinues == "Sleeping"

\* AlarmService.start: except asyncio.CancelledError around the sleep: break
AfterSleepCancelled == "Stopped"

\* CancelledError is raised in the scheduler at its sleep
alarm_service_cancelled ==
    /\ tasks["alarm_service"] = "cancelling"
    /\ schedPc = "Sleeping"
    /\ schedPc' = AfterSleepCancelled
    /\ tasks' = [tasks EXCEPT !["alarm_service"] = "finished"]
    /\ UNCHANGED <<stillVars, mainPc, procPc, current, turnPc, session>>

\* CancelledError is raised in the processor at event_queue.get() or at the
\* dispatch it awaits; no except clause catches it and the coroutine ends
alarm_event_processor_cancelled ==
    /\ tasks["alarm_event_processor"] = "cancelling"
    /\ procPc \in {"Waiting", "Dispatching"}
    /\ procPc' = "Stopped"
    /\ current' = NoEvent
    /\ tasks' = [tasks EXCEPT !["alarm_event_processor"] = "finished"]
    /\ UNCHANGED <<stillVars, mainPc, schedPc, turnPc, session>>

\* CancelledError is raised in the console loop at to_thread(input) or at
\* handle_user_event; the with block closes the session without commit and
\* `except (asyncio.CancelledError, KeyboardInterrupt)` breaks out of the loop
cli_cancelled ==
    /\ Integration = "cli"
    /\ tasks["integration"] = "cancelling"
    /\ turnPc \in {"Reading", "Handling", "Invoking", "Responded"}
    /\ turnPc' = "Stopped"
    /\ session' = NoSession
    /\ tasks' = [tasks EXCEPT !["integration"] = "finished"]
    /\ UNCHANGED <<stillVars, mainPc, schedPc, procPc, current>>

\* `await asyncio.gather(*tasks, return_exceptions=True)` returns
main_shut_down ==
    /\ mainPc = "Cancelling"
    /\ \A t \in TaskNames : tasks[t] = "finished"
    /\ mainPc' = "ShutDown"
    /\ UNCHANGED <<stillVars, tasks, schedPc, procPc, current, turnPc, session>>

\* a step of the scheduler's task
alarm_service_step ==
    /\ tasks["alarm_service"] = "running"
    /\ (start_open \/ delete_old_alarms \/ check_alarms \/ commit \/ tick_fail)

\* a step of the processor's task
alarm_event_processor_step ==
    /\ tasks["alarm_event_processor"] = "running"
    /\ (proc_get \/ proc_done)

\* a step of the console's task, taken while the scheduler is suspended
integration_step ==
    /\ tasks["integration"] = "running"
    /\ SchedSuspended
    /\ (cli_read_message \/ handle_user_event_resolve \/ invoke_llm
            \/ handle_user_event_commit)

\* an alarm is committed while the process runs
running_create_alarm ==
    /\ mainPc = "Gathering"
    /\ create_alarm(0)

NextShutdown ==
    \/ running_create_alarm
    \/ alarm_service_step
    \/ alarm_event_processor_step
    \/ integration_step
    \/ main_finally
    \/ alarm_service_cancelled
    \/ alarm_event_processor_cancelled
    \/ cli_cancelled
    \/ main_shut_down

\* the process runs with the console; main() waits in gather
InitShutdown == InitLoopRunning /\ Integration = "cli"

\* the event loop runs every callback it has queued: a cancellation that was
\* requested is delivered, and main() resumes when its gather is done
SpecShutdown ==
    /\ InitShutdown
    /\ [][NextShutdown]_vars
    /\ WF_vars(alarm_service_cancelled)
    /\ WF_vars(alarm_event_processor_cancelled)
    /\ WF_vars(cli_cancelled)
    /\ WF_vars(main_shut_down)

\* ---- the request id of log records ----

\* the hex digits uuid4() gives the turn: each call gives a new value
NewRequestId(r) == [r1 |-> "id1", r2 |-> "id2"][r]

\* RequestIdFilter.filter: record.request_id = self.current_request_id or ""
filter(request_id) == IF request_id = "None" THEN "" ELSE request_id

\* what both turns' steps leave alone
notRequestVars == <<alarmVars, chatVars, survived, fireLog, raisedIn, notifyVars>>

\* RequestIdContextManager.__enter__ at the head of a turn's with block
RequestIdContextManager_enter(r) ==
    /\ requests[r].pc = "idle"
    /\ requests' = [requests EXCEPT ![r] = [pc |-> "active", request_id |-> NewRequestId(r)]]
    /\ current_request_id' = NewRequestId(r)
    /\ UNCHANGED <<records, notRequestVars>>

\* a logger call inside the with block; the filter stamps the record
RequestIdFilter_filter(r) ==
    /\ requests[r].pc = "active"
    /\ Len(records) < MaxRecords
    /\ records' = Append(records, [request |-> r, request_id |-> filter(current_request_id)])
    /\ UNCHANGED <<current_request_id, requests, notRequestVars>>

\* RequestIdContextManager.__exit__ when the turn leaves its with block
RequestIdContextManager_exit(r) ==
    /\ requests[r].pc = "active"
    /\ requests' = [requests EXCEPT ![r].pc = "done"]
    /\ current_request_id' = "None"
    /\ UNCHANGED <<records, notRequestVars>>

\* on_message runs as one task per message: a turn suspended at the language
\* model call is inside its with block while another turn enters or leaves
NextRequestId ==
    \E r \in Requests :
        \/ RequestIdContextManager_enter(r)
        \/ RequestIdFilter_filter(r)
        \/ RequestIdContextManager_exit(r)

SpecRequestId == InitAlarmTools /\ [][NextRequestId]_vars

\* ---- MessagingTools ----

\* the callbacks integrations register
Callbacks == {"send_a", "send_b"}

Range(q) == {q[i] : i \in DOMAIN q}

\* list.remove(x): the list without the first item equal to x
RECURSIVE remove(_, _)
remove(q, x) ==
    IF q = <<>> THEN <<>>
    ELSE IF Head(q) = x THEN Tail(q)
    ELSE <<Head(q)>> \o remove(Tail(q), x)

\* the calls notify_all makes: the for loop stops at the first listener that raises
RECURSIVE Called(_, _)
Called(q, raising) ==
    IF q = <<>> THEN <<>>
    ELSE IF Head(q) \in raising THEN <<Head(q)>>
    ELSE <<Head(q)>> \o Called(Tail(q), raising)

\* what the listeners' steps leave alone
notNotifyVars == <<alarmVars, chatVars, survived, fireLog, raisedIn, requestVars>>

\* MessagingTools.add_message_listener
add_message_listener(callback) ==
    /\ Len(listeners) < MaxListeners
    /\ listeners' = Append(listeners, callback)
    /\ UNCHANGED <<delivered, notified, notNotifyVars>>

\* MessagingTools.remove_message_listener of a registered callback
remove_message_listener(callback) ==
    /\ callback \in Range(listeners)
    /\ listeners' = remove(listeners, callback)
    /\ UNCHANGED <<delivered, notified, notNotifyVars>>

\* MessagingTools.notify_all when the listeners in raising raise
notify_all_with(raising) ==
    /\ delivered' = Called(listeners, raising)
    /\ notified' = IF Range(listeners) \cap raising = {} THEN "returned" ELSE "raised"
    /\ UNCHANGED <<listeners, notNotifyVars>>

\* MessagingTools.notify_all
notify_all == \E raising \in SUBSET Callbacks : notify_all_with(raising)

NextNotify ==
    \/ \E callback \in Callbacks : add_message_listener(callback)
    \/ \E callback \in Callbacks : remove_message_listener(callback)
    \/ notify_all

SpecNotify == InitAlarmTools /\ [][NextNotify]_vars

\* ---- properties ----

TickPcs == {"Opened", "Evicted", "Checked"}

\* the alarm was created and its row is no longer in the store
Gone(id) == id \in 1..(nextId - 1) /\ id \notin IdsOf(store)

\* an event was enqueued for the alarm
Fired(id) == \E i \in DOMAIN enqLog : enqLog[i] = id

\* the events check_alarms appended in the step just taken
NewEvents == {i \in DOMAIN event_queue' : i > Len(event_queue)}

\* C1: under continuous operation on a host whose clock is UTC, no alarm
\* committed before its trigger time leaves the store without having been
\* enqueued.
C1_NoGap ==
    tz = 0 => \A id \in 1..MaxAlarms : Gone(id) => Fired(id)

\* C2: no alarm is enqueued more than once, so never by two different
\* passes, also when the commit of the pass that enqueued it failed.
C2_NoDoubleFire ==
    \A i, j \in DOMAIN enqLog : i # j => enqLog[i] # enqLog[j]

\* an alarm enqueued by a pass whose commit failed is still stored, and a
\* later pass has run its check without selecting it again
C2_Witness ==
    /\ schedPc = "Checked"
    /\ \E a \in store : Fired(a.alarm_id) /\ a.alarm_id \notin pendingDel

\* C3: each alarm is handed to the orchestrator at most once, also across a
\* crash and restart of the process.
C3_AtMostOnce ==
    \A i, j \in DOMAIN dispLog : i # j => dispLog[i] # dispLog[j]

\* C4: a check pass reading the time now appends exactly one event, carrying
\* the alarm's id and description, for every stored alarm with
\* now - interval < trigger_time <= now, and the commit of the pass removes
\* each of these alarms from the store.
C4_FireWindow ==
    [][ /\ (schedPc = "Evicted" /\ schedPc' = "Checked") =>
              \A a \in store :
                  (LocalNow - CHECK_INTERVAL < a.trigger_time /\ a.trigger_time <= LocalNow) =>
                      /\ Cardinality({i \in NewEvents :
                                         event_queue'[i].alarm_id = a.alarm_id}) = 1
                      /\ \A i \in NewEvents :
                             event_queue'[i].alarm_id = a.alarm_id =>
                                 /\ event_queue'[i].event_description = a.description
                                 /\ event_queue'[i].event_source = "AlarmService"
        /\ (schedPc = "Checked" /\ commitsInPass' = commitsInPass + 1) =>
              \A a \in store :
                  (nowChk - CHECK_INTERVAL < a.trigger_time /\ a.trigger_time <= nowChk) =>
                      a \notin store'
      ]_vars

\* an alarm has been fired and its row removed by a committed pass
C4_Witness ==
    /\ schedPc = "Sleeping"
    /\ commitsInPass = 1
    /\ \E id \in 1..MaxAlarms : Fired(id) /\ Gone(id)

\* C5 as stated: every alarm with trigger_time <= now - interval is deleted
\* by the pass (once it commits) and no event is enqueued for it.
C5_StaleDropInclusive ==
    [][ /\ (schedPc = "Evicted" /\ schedPc' = "Checked") =>
              \A a \in store :
                  a.trigger_time <= nowDel - CHECK_INTERVAL =>
                      \A i \in NewEvents : event_queue'[i].alarm_id # a.alarm_id
        /\ (schedPc = "Checked" /\ commitsInPass' = commitsInPass + 1) =>
              \A a \in store :
                  a.trigger_time <= nowDel - CHECK_INTERVAL => a \notin store'
      ]_vars

\* C5 amended: every alarm with trigger_time < now - interval is deleted by
\* the pass (once it commits) and no event is enqueued for it; an alarm with
\* trigger_time = now - interval is neither enqueued nor deleted by that pass.
C5_StaleDrop ==
    [][ /\ (schedPc = "Evicted" /\ schedPc' = "Checked") =>
              \A a \in store :
                  a.trigger_time <= nowDel - CHECK_INTERVAL =>
                      \A i \in NewEvents : event_queue'[i].alarm_id # a.alarm_id
        /\ (schedPc = "Checked" /\ commitsInPass' = commitsInPass + 1) =>
              \A a \in store :
                  /\ a.trigger_time < nowDel - CHECK_INTERVAL => a \notin store'
                  /\ a.trigger_time = nowDel - CHECK_INTERVAL => a \in store'
      ]_vars

\* an alarm has left the store by a committed pass without ever being enqueued
C5_Witness ==
    /\ schedPc = "Sleeping"
    /\ commitsInPass = 1
    /\ \E id \in 1..MaxAlarms : Gone(id) /\ ~Fired(id)

\* C6: within a pass the store changes in one step only, the single commit,
\* which removes every evicted and every fired alarm of the pass together;
\* a pass that ends without commit leaves the store as it found it.
C6_AtomicPass ==
    [][ /\ schedPc \in TickPcs =>
              \/ store' = store /\ commitsInPass' = commitsInPass
              \/ /\ schedPc = "Checked"
                 /\ schedPc' = "Sleeping"
                 /\ commitsInPass = 0
                 /\ commitsInPass' = 1
                 /\ \A a \in store :
                        a \in store' <=>
                            /\ ~(a.trigger_time < nowDel - CHECK_INTERVAL)
                            /\ ~(nowChk - CHECK_INTERVAL < a.trigger_time
                                    /\ a.trigger_time <= nowChk)
                 /\ store' \subseteq store
      ]_vars

\* a pass holds an eviction and a fired alarm's delete together, uncommitted
C6_Witness ==
    /\ schedPc = "Checked"
    /\ \E id1, id2 \in pendingDel : Fired(id1) /\ ~Fired(id2)
    /\ \A id \in pendingDel : id \in IdsOf(store)

\* C7: a pass that ends without commit (an exception) leaves the scheduler
\* in its sleep of one check interval, not stopped, with the store untouched,
\* and the next pass can start once that sleep is over.
C7_ExceptionCaught ==
    [][ /\ (schedPc \in TickPcs /\ schedPc' \notin TickPcs
               /\ commitsInPass' = commitsInPass) =>
              /\ schedPc' = "Sleeping"
              /\ wakeAt' = clock + CHECK_INTERVAL
              /\ store' = store
        /\ (schedPc = "Sleeping" /\ clock >= wakeAt) => ENABLED start_open
      ]_vars

\* a pass has started after a pass whose commit failed: the alarm that pass
\* enqueued is still stored
C7_Witness ==
    /\ schedPc = "Opened"
    /\ \E a \in store : Fired(a.alarm_id)

\* C8: the scheduler stops only from its sleep, never between the opening of
\* a pass's session and its commit, and once stopped it does nothing more.
C8_CancelOnlyWhileSleeping ==
    [][ /\ (schedPc' = "Stopped" /\ schedPc # "Stopped") => schedPc = "Sleeping"
        /\ schedPc = "Stopped" =>
              /\ schedPc' = "Stopped"
              /\ store' = store
              /\ pendingDel' = pendingDel
              /\ enqLog' = enqLog
              /\ event_queue' = event_queue
      ]_vars

\* C9: whatever the length of the queue and the state of the processor, a
\* pass appends the event of every due alarm behind what is queued, and the
\* steps of a pass are never disabled by the queue or the processor.
C9_NoBackpressure ==
    [][ /\ (schedPc = "Evicted" /\ schedPc' = "Checked") =>
              /\ Len(event_queue') = Len(event_queue) +
                    Cardinality({a \in store :
                                    /\ LocalNow - CHECK_INTERVAL < a.trigger_time
                                    /\ a.trigger_time <= LocalNow})
              /\ SubSeq(event_queue', 1, Len(event_queue)) = event_queue
        /\ schedPc = "Evicted" => ENABLED check_alarms
        /\ schedPc = "Checked" => ENABLED commit
      ]_vars

\* an event was pushed behind an event of an earlier pass that the
\* processor, busy with or stopped, has not taken
C9_Witness ==
    /\ schedPc = "Checked"
    /\ Len(event_queue) = 2
    /\ event_queue[1].alarm_id \notin pendingDel
    /\ event_queue[2].alarm_id \in pendingDel

\* C10: the events handed to the orchestrator are, in order, the first
\* events that were enqueued.
C10_Fifo ==
    /\ Len(dispLog) <= Len(enqLog)
    /\ \A i \in DOMAIN dispLog : dispLog[i] = enqLog[i]

\* two events were queued together and both have been dispatched
C10_Witness ==
    /\ Len(dispLog) = 2
    /\ procPc = "Dispatching"
    /\ schedPc = "Sleeping"

\* the trigger time of the stored alarm with this id
TriggerOf(id) == (CHOOSE a \in store : a.alarm_id = id).trigger_time

\* C11: the events a pass appends to the queue are in ascending order of
\* their alarms' trigger times.
C11_AscendingInTick ==
    [][ (schedPc = "Evicted" /\ schedPc' = "Checked") =>
            \A i, j \in NewEvents :
                i < j => TriggerOf(event_queue'[i].alarm_id)
                            <= TriggerOf(event_queue'[j].alarm_id)
      ]_vars

\* an event of the alarm is waiting in the queue
InQueue(id) == \E i \in DOMAIN event_queue : event_queue[i].alarm_id = id

\* an event of the alarm was handed to the orchestrator
Dispatched(id) == \E i \in DOMAIN dispLog : dispLog[i] = id

\* C12: a dispatch that raises leaves the processor at its queue wait, and
\* every event that is in the queue once a dispatch has raised is eventually
\* dispatched, in a run where the processor is not cancelled and every
\* dispatch terminates.
C12_FailureDoesNotBlock ==
    /\ [][ (procPc = "Dispatching" /\ lastOutcome' = "raised"
               /\ procPc' # "Dispatching") => procPc' = "Waiting" ]_vars
    /\ \A id \in 1..MaxAlarms :
           (lastOutcome = "raised" /\ InQueue(id)) ~> Dispatched(id)

\* the dispatch before this one raised, and the processor has taken the next
\* event from the queue
C12_Witness ==
    /\ procPc = "Dispatching"
    /\ lastOutcome = "raised"
    /\ Len(dispLog) = 2

\* C13: the queue holds exactly the events the scheduler pushed and the
\* processor has not taken yet, in push order; no alarm is dispatched twice;
\* and the step in which a dispatch raises drops the event and leaves the
\* queue as it is.
C13_NoRetry ==
    /\ [](/\ Len(event_queue) = Len(enqLog) - Len(dispLog)
          /\ \A i \in DOMAIN event_queue :
                 /\ event_queue[i].alarm_id = enqLog[Len(dispLog) + i]
                 /\ event_queue[i].event_source = "AlarmService"
          /\ \A i, j \in DOMAIN dispLog : i # j => dispLog[i] # dispLog[j])
    /\ [][ (procPc = "Dispatching" /\ lastOutcome' = "raised"
               /\ procPc' # "Dispatching") =>
                   /\ event_queue' = event_queue
                   /\ current' = NoEvent
                   /\ dispLog' = dispLog ]_vars

\* a dispatch has raised, the processor waits again, and the event it
\* failed on is not in the queue although a later event is
C13_Witness ==
    /\ procPc = "Waiting"
    /\ lastOutcome = "raised"
    /\ Len(dispLog) = 1
    /\ ~InQueue(dispLog[1])
    /\ event_queue # <<>>

\* the messages a turn's merge is given, in concatenation order
InputMessages == chain(TurnHistories)

IdsIn(messages) == {messages[i].id : i \in DOMAIN messages}

\* the place of the first message with this id
FirstIndex(messages, id) ==
    CHOOSE i \in DOMAIN messages :
        messages[i].id = id /\ \A j \in 1..(i - 1) : messages[j].id # id

\* the merge of the turn has returned a sequence
MergeReturned == merged.done /\ ~merged.raised

\* C14: the sequence a merge returns is in ascending order of timestamp, and
\* messages of equal timestamp are in the order of their first occurrence in
\* the concatenated sources.
C14_SortedByTimestamp ==
    MergeReturned =>
        \A i, j \in DOMAIN merged.value :
            i < j =>
                /\ merged.value[i].timestamp <= merged.value[j].timestamp
                /\ merged.value[i].timestamp = merged.value[j].timestamp =>
                       FirstIndex(InputMessages, merged.value[i].id)
                           < FirstIndex(InputMessages, merged.value[j].id)

\* C15: for every id among the inputs the sequence a merge returns has
\* exactly one message of that id, and it is, field for field, the first
\* message of that id in the concatenated sources.
C15_FirstSeenWins ==
    MergeReturned =>
        \A id \in IdsIn(InputMessages) :
            /\ Cardinality({i \in DOMAIN merged.value : merged.value[i].id = id}) = 1
            /\ \A i \in DOMAIN merged.value :
                   merged.value[i].id = id =>
                       merged.value[i] = InputMessages[FirstIndex(InputMessages, id)]

\* a merge has returned for sources that hold two messages of one id with
\* different content
C15_Witness ==
    /\ MergeReturned
    /\ \E i, j \in DOMAIN InputMessages :
           /\ i < j
           /\ InputMessages[i].id = InputMessages[j].id
           /\ InputMessages[i].content # InputMessages[j].content

\* C16: merging the histories given twice over gives what merging them once
\* gave, the same messages in the same order, or fails as it did.
C16_Idempotent ==
    merged.done =>
        /\ merge_chat_history(TurnHistories \o TurnHistories).raised = merged.raised
        /\ merge_chat_history(TurnHistories \o TurnHistories).value = merged.value

\* a merge has returned two messages or more out of sources that repeat an id
C16_Witness ==
    /\ MergeReturned
    /\ Len(merged.value) >= 2
    /\ Len(InputMessages) > Len(merged.value)

\* C17: when a message of the sources has no id, the merge raises and
\* returns no sequence, in the orchestrator and in the language-model
\* service alike.
C17_MissingIdFails ==
    /\ (merged.done /\ None \in IdsIn(InputMessages)) =>
           merged.raised /\ merged.value = <<>>
    /\ (encoded.done /\ None \in IdsIn(chain(ContextHistories))) =>
           encoded.raised /\ encoded.value = <<>>

\* C18: the sequence a merge returns has as many messages as the sources
\* have distinct ids, however many that is, and the step that merges leaves
\* the user's stored history as it was.
C18_NoTruncation ==
    /\ [](MergeReturned =>
              Len(merged.value) = Cardinality(IdsIn(InputMessages)))
    /\ [][ merged' # merged =>
               /\ user_chat_history' = user_chat_history
               /\ appendLog' = appendLog ]_vars

\* a merge has returned more messages than a user's history may hold
C18_Witness ==
    /\ MergeReturned
    /\ Len(merged.value) > CHAT_HISTORY_LIMIT
    /\ Len(user_chat_history_getter(user_chat_history)) = CHAT_HISTORY_LIMIT

Min(a, b) == IF a <= b THEN a ELSE b

\* history holds the last min(k, n) messages of log, in the order of log
IsTailOf(history, log, n) ==
    /\ Len(history) = Min(Len(log), n)
    /\ \A i \in DOMAIN history : history[i] = log[Len(log) - Len(history) + i]

\* C19: after k appends the stored history of a user holds exactly the last
\* min(k, N) appended messages in append order, N being the capacity, in the
\* user context service and in the chat history service alike.
C19_BoundedFifo ==
    /\ IsTailOf(user_chat_history_getter(user_chat_history), appendLog, CHAT_HISTORY_LIMIT)
    /\ IsTailOf(history_getter(chat_history), chatLog, HISTORY_KEEP)

\* one message more than the capacity was appended and the capacity is kept
C19_Witness ==
    /\ Len(appendLog) = CHAT_HISTORY_LIMIT + 1
    /\ Len(user_chat_history_getter(user_chat_history)) = CHAT_HISTORY_LIMIT
    /\ appendLog[1] # appendLog[2]

\* the wall-clock reading in UTC of the instant a timestamp string names, a
\* string without offset being read as UTC
UtcReading(s) == s.wall - s.offset

\* C20: every stored alarm holds as trigger_time the UTC reading of the
\* timestamp string it was last given, whether the string was naive or
\* carried an offset.
C20_StoredUtc ==
    \A a \in store :
        a.alarm_id \in DOMAIN requested =>
            a.trigger_time = UtcReading(requested[a.alarm_id])

\* C22: a create-alarm call whose timestamp is malformed returns the failure
\* string, raises nothing, and adds no alarm to the store.
C22_MalformedCreate ==
    [][\A u \in UserIds :
          AlarmService_create_alarm(Malformed, u) =>
              /\ result'.kind = "Failed to create alarm"
              /\ store' = store
              /\ nextId' = nextId]_vars

\* a malformed create-alarm call has returned while the store holds an alarm
C22_Witness ==
    /\ result.kind = "Failed to create alarm"
    /\ store # {}

\* C23: update or delete with an alarm id that is not in the store returns the
\* not-found string and leaves the store as it is; delete with an id that is in
\* the store removes that alarm and no other.
C23_UnknownIdAndDelete ==
    [][\A id \in 1..MaxAlarms :
          /\ \A s \in ToolCallStrings :
                (id \notin IdsOf(store) /\ AlarmService_update_alarm(id, s, NoDescription)) =>
                    (result'.kind = "Alarm not found" /\ store' = store)
          /\ (id \notin IdsOf(store) /\ AlarmService_delete_alarm(id)) =>
                    (result'.kind = "Alarm not found" /\ store' = store)
          /\ (id \in IdsOf(store) /\ AlarmService_delete_alarm(id)) =>
                    /\ result'.kind = "Alarm deleted"
                    /\ store' \subseteq store
                    /\ store \ store' = {a \in store : a.alarm_id = id}
                    /\ Cardinality(store \ store') = 1]_vars

\* a delete removed one of two alarms
C23_Witness ==
    /\ result.kind = "Alarm deleted"
    /\ nextId = 3
    /\ Cardinality(store) = 1

\* the alarms of the store that a rendered listing names
ListedIds(alarms) == {alarms[i].alarm_id : i \in DOMAIN alarms}

\* C24: list(user_id, include_past) returns only alarms of that user, in
\* ascending trigger_time order: all of them with include_past true, exactly
\* those with trigger_time > now with include_past false; the store is unchanged.
C24_List ==
    [][\A u \in UserIds, include_past \in BOOLEAN :
          AlarmService_list_alarms(u, include_past) =>
              LET alarms == result'.alarms
                  expected == {a \in store : /\ a.user_id = u
                                             /\ (include_past \/ a.trigger_time > UtcNow)}
              IN  /\ ListedIds(alarms) = IdsOf(expected)
                  /\ Len(alarms) = Cardinality(expected)
                  /\ \A i \in DOMAIN alarms :
                        \E a \in expected : alarms[i] = AlarmStr(a)
                  /\ \A i, j \in DOMAIN alarms :
                        i < j => alarms[i].trigger_time <= alarms[j].trigger_time
                  /\ store' = store]_vars

\* a listing of one user's future alarm while that user also has a past one
C24_Witness ==
    /\ result.kind = "listed"
    /\ Len(result.alarms) = 1
    /\ result.alarms[1].trigger_time > UtcNow
    /\ \E a \in store : a.user_id = CliUser /\ a.alarm_id = result.alarms[1].alarm_id
    /\ \E a \in store : a.user_id = CliUser /\ a.trigger_time <= UtcNow


\* the positions at which a token of the string begins
TokenStarts(string) ==
    {i \in DOMAIN string :
        string[i] \notin Whitespace /\ (i = 1 \/ string[i - 1] \in Whitespace)}

\* the number of whitespace-separated tokens of the string
TokenCount(string) == Cardinality(TokenStarts(string))

\* the token of the string that begins at position i
RECURSIVE TokenAt(_, _)
TokenAt(string, i) ==
    IF i > Len(string) \/ string[i] \in Whitespace
    THEN <<>>
    ELSE <<string[i]>> \o TokenAt(string, i + 1)

\* the k-th token of the string
NthToken(string, k) ==
    TokenAt(string,
            CHOOSE i \in TokenStarts(string) :
                Cardinality({j \in TokenStarts(string) : j <= i}) = k)

\* C28: validate_message returns the message unchanged whenever it has at
\* most max_tokens whitespace-separated tokens, exactly max_tokens included.
C28_WithinLimitUnchanged ==
    (validated.done /\ TokenCount(raw_message) <= max_tokens)
        => validated.value = raw_message

\* a message of exactly max_tokens tokens with whitespace that a re-join would
\* not keep was validated
C28_Witness ==
    /\ validated.done
    /\ TokenCount(raw_message) = max_tokens
    /\ raw_message # join(<<" ">>, split(raw_message))

\* C29: on a message of more than max_tokens tokens validate_message returns
\* its first max_tokens tokens, in their order, joined by single spaces; the
\* result never has more than max_tokens tokens.
C29_TruncatedToFirstTokens ==
    /\ (validated.done /\ TokenCount(raw_message) > max_tokens) =>
          /\ TokenCount(validated.value) = max_tokens
          /\ \A k \in 1..max_tokens :
                NthToken(validated.value, k) = NthToken(raw_message, k)
          /\ \A i \in DOMAIN validated.value :
                validated.value[i] \in Whitespace =>
                    /\ validated.value[i] = " "
                    /\ i > 1 /\ i < Len(validated.value)
                    /\ validated.value[i + 1] \notin Whitespace
    /\ validated.done => TokenCount(validated.value) <= max_tokens

\* a message of three tokens was cut to its first two
C29_Witness ==
    /\ validated.done
    /\ max_tokens = 2
    /\ TokenCount(raw_message) = 3
    /\ Len(validated.value) = 3

\* C26: the processor is stopped only while it waits on the queue: no
\* shutdown ends it while an event has been popped and its dispatch is in flight.
C26_CancelOnlyWhileWaiting ==
    [][(procPc' = "Stopped" /\ procPc # "Stopped") =>
           (procPc = "Waiting" /\ current = NoEvent)]_vars

\* the task has run at least its first step
Started(t) == tasks[t] \in {"running", "cancelled while running"}

\* C27: when startup is aborted for a missing credential, none of the
\* scheduler loop, the event-processor loop and the input loop has been started.
C27_AbortBeforeAnyLoop ==
    mainPc \in {"Raised", "Aborted"} => \A t \in TaskNames : ~Started(t)

\* the ids of the messages are pairwise different
DistinctIds(messages) ==
    \A i, j \in DOMAIN messages : i # j => messages[i].id # messages[j].id

\* C21: while a message turn is under way, and after a turn that raised, the
\* committed rows (user context, chat history, alarms) are what they were when
\* the turn began: what a turn did becomes visible only at its commit on success.
C21_TurnIsOneTransaction ==
    (turnPc # "Reading" \/ reported = "error") =>
        /\ user_chat_history = snapshot.user_chat_history
        /\ chat_history = snapshot.chat_history
        /\ store = snapshot.store

\* C25: an error in a message turn never stops the input loop: it is reported
\* to the user, the loop reads the next message, and the console's immediate
\* history is what it was before the failed turn.
C25_ErrorKeepsLoop ==
    [][(turnPc # "Reading" /\ reported' = "error") =>
           /\ turnPc' = "Reading"
           /\ immediate_history' = snapshot.immediate_history
           /\ immediate_history' = immediate_history]_vars

\* a turn of the console failed after an earlier one had succeeded
C25_Witness ==
    /\ Integration = "cli"
    /\ turnPc = "Reading"
    /\ reported = "error"
    /\ turns = 2
    /\ Len(immediate_history) = 2

\* C30: the messages of a user's persisted history have pairwise different
\* ids, the user message and the response of one turn included.
C30_UniqueIds ==
    /\ DistinctIds(user_chat_history_getter(user_chat_history))
    /\ DistinctIds(history_getter(chat_history))

\* the step is a pass's session.commit() succeeding
CommitStep == schedPc = "Checked" /\ commitsInPass' = commitsInPass + 1

\* the step is check_alarms
CheckStep == schedPc = "Evicted" /\ schedPc' = "Checked"

\* C32: after a pass that committed, no alarm whose trigger_time is at or
\* before the now the pass read is left in the store.
C32_NoDueAlarmAfterTick ==
    [][CommitStep => \A a \in store' : a.trigger_time > nowDel]_vars

\* C33: while the scheduler is suspended, an alarm whose event is on the queue
\* or was handed to the orchestrator is no longer in the store.
C33_QueueStoreConsistent ==
    SchedSuspended => \A id \in IdsOf(store) : ~InQueue(id) /\ ~Dispatched(id)

\* C35: an alarm that a committed pass left in the store although it was due
\* is removed by the next pass that commits.
C35_LeavesWithinTwoTicks ==
    [][CommitStep => IdsOf(store') \cap survived = {}]_vars

\* an alarm was left in the store by one committed pass and evicted by a later one
C35_Witness ==
    \E id \in survived : Gone(id) /\ ~Fired(id)

\* C36: an alarm a pass enqueues has a trigger_time at or after that of every
\* alarm enqueued by an earlier pass, and the events are dispatched in the
\* order they were enqueued.
C36_MonotoneAcrossTicks ==
    [][/\ CheckStep =>
            \A i \in DOMAIN fireLog : \A j \in DOMAIN fireLog' :
                j > Len(fireLog) => fireLog[i] <= fireLog'[j]
       /\ \A i \in DOMAIN dispLog' : dispLog'[i] = enqLog'[i]]_vars

\* two passes have each enqueued an alarm and both events were dispatched
C36_Witness ==
    /\ Len(fireLog) = 2
    /\ fireLog[1] < fireLog[2]
    /\ Len(dispLog) = 2

\* C37: a pass taking place at UTC instant now enqueues exactly the alarms
\* whose UTC trigger_time T satisfies now - CHECK_INTERVAL < T <= now, whatever
\* the offset of the host's local clock.
C37_FiresInUtcWindow ==
    [][CheckStep =>
          {event_queue'[i].alarm_id : i \in NewEvents}
              = IdsOf({a \in store : /\ clock - CHECK_INTERVAL < a.trigger_time
                                     /\ a.trigger_time <= clock})]_vars

\* C34: when process_alarm raises for some of the alarms check_alarms selected,
\* the exception does not leave check_alarms, those alarms are not marked
\* deleted, every other selected alarm is enqueued and marked deleted, and the
\* commit of the pass removes the others and keeps those.
C34_FailureConfined ==
    [][/\ (schedPc = "Evicted" /\ raisedIn' # {}) =>
            /\ schedPc' = "Checked"
            /\ raisedIn' \cap pendingDel' = {}
            /\ \A a \in ActiveAlarms(store, LocalNow) :
                   a.alarm_id \notin raisedIn' =>
                       /\ a.alarm_id \in pendingDel'
                       /\ \E i \in NewEvents : event_queue'[i].alarm_id = a.alarm_id
       /\ (CommitStep /\ raisedIn # {}) =>
            /\ raisedIn \subseteq IdsOf(store')
            /\ \A a \in ActiveAlarms(store, nowChk) :
                   a.alarm_id \notin raisedIn => a.alarm_id \notin IdsOf(store')]_vars

\* a pass selected two alarms, process_alarm raised for one of them, and the
\* pass committed: one event enqueued, the other alarm still stored
C34_Witness ==
    /\ schedPc = "Sleeping"
    /\ commitsInPass = 1
    /\ Cardinality(raisedIn) = 1
    /\ raisedIn = IdsOf(store)
    /\ Len(enqLog) = 1
    /\ Gone(enqLog[1])

C39_OwnRequestId ==
    /\ \A r \in Requests :
          requests[r].pc = "active" => current_request_id = requests[r].request_id
    /\ \A i \in DOMAIN records :
          records[i].request_id = requests[records[i].request].request_id

\* C40: notify_all calls every registered listener, once per registration and
\* in registration order, also when one of them raises.
C40_EveryListenerOnce ==
    [][notify_all => delivered' = listeners]_vars

\* every loop has reached its stopped state
AllStopped == schedPc = "Stopped" /\ procPc = "Stopped" /\ turnPc = "Stopped"

\* C31: when main() leaves its wait it cancels every task it started, and then
\* the scheduler loop, the processor loop and the console loop each reach their
\* stopped state, whatever each was doing when it was cancelled.
C31_EveryLoopStops ==
    /\ [](mainPc = "Cancelling" => \A t \in TaskNames : tasks[t] # "running")
    /\ (mainPc = "Cancelling") ~> AllStopped

\* the process shut down with every loop stopped, the processor having been
\* cancelled in a dispatch and the console in a message turn
C31_Witness ==
    /\ mainPc = "ShutDown"
    /\ AllStopped
    /\ Len(dispLog) = 1
    /\ lastOutcome = "none"
    /\ turns = 1
    /\ reported = "none"

====
